---- MODULE Spec2Model ----
(***************************************************************************)
(* Ultimate Tic-Tac-Toe: the room state machine served by the game API     *)
(* (create / join / move / reset on an in-memory room record) and the      *)
(* local game state machine of the UI component (handleMove / resetGame).  *)
(*                                                                         *)
(* Arrays of the source are functions over 0..8 (boards, mainBoard) or     *)
(* sequences (players, spectators; source index i is sequence index i+1).  *)
(* null is the string "null"; a null lastMove is the empty sequence.       *)
(***************************************************************************)
EXTENDS Integers, Sequences, FiniteSets, TLC

VARIABLES
    gameRooms,       \* server: room id -> room record (game-server-store.ts)
    now,             \* server: the latest reading of Date.now()
    accepted,        \* number of moves applied so far in this behaviour
    last,            \* the last request handled and its answer
    gameMode,        \* component: "local" or "multiplayer"
    boards,          \* component state (useState), local game
    mainBoard,
    currentPlayer,
    nextBoardIndex,
    gameOver,
    winner,
    lastMove,
    pending,         \* server: POST requests received, body not yet read
    clientRoom,      \* polling client (useMultiplayer): the room it holds
    responses,       \* responses on their way to the polling client
    aiPlayer,        \* component: the mark the AI plays
    aiDepth,         \* component: the search depth set by the slider
    aiThinking,      \* component: makeAIMove has set the flag, its timer runs
    deferred,        \* the timer callback of makeAIMove and what it captured
    evalBoard,       \* a 9-slot board handed to the three evaluators
    evalAnswer       \* what each evaluator returned for it

vars == <<gameRooms, now, accepted, last, gameMode, boards, mainBoard,
          currentPlayer, nextBoardIndex, gameOver, winner, lastMove,
          pending, clientRoom, responses, aiPlayer, aiDepth, aiThinking,
          deferred, evalBoard, evalAnswer>>

roomVars  == <<gameRooms, now>>
localVars == <<boards, mainBoard, currentPlayer, nextBoardIndex, gameOver,
               winner, lastMove>>
netVars   == <<pending, clientRoom, responses>>
aiVars    == <<aiPlayer, aiDepth, aiThinking, deferred>>
evalVars  == <<evalBoard, evalAnswer>>

----------------------------------------------------------------------------
(* Bounds *)

MaxMoves == 1        \* moves applied after the starting position
MaxClock == 1        \* largest clock reading
MaxPending == 2      \* requests received by the server and not yet handled
MaxResponses == 2    \* responses on their way to the polling client

----------------------------------------------------------------------------
(* Values *)

Null == "null"
Idx == 0..8
Marks == {"X", "O"}
NoMove == << >>

Host == "A"
Participants == {"A", "B", "C"}
RoomId == "R1"

EmptyBoard == [i \in Idx |-> Null]
EmptyBoards == [b \in Idx |-> EmptyBoard]

\* Array.prototype.indexOf on a sequence: the source index of the first
\* occurrence, -1 when absent
RECURSIVE indexFrom(_, _, _)
indexFrom(arr, x, i) ==
    IF i > Len(arr) THEN -1
    ELSE IF arr[i] = x THEN i - 1
    ELSE indexFrom(arr, x, i + 1)

indexOf(arr, x) == indexFrom(arr, x, 1)

includes(arr, x) == indexOf(arr, x) # -1

\* what a read of arr[i] gives: undefined when the array has no index i
Undefined == "undefined"

at(arr, i) == IF i \in DOMAIN arr THEN arr[i] ELSE Undefined

\* arr[i] = v: the element is replaced, or added when the array has no index i
assign(arr, i, v) == [j \in DOMAIN arr \cup {i} |-> IF j = i THEN v ELSE arr[j]]

\* const x = e; ... : F applied to the value of e, e evaluated once
With(e, F(_)) == CHOOSE r \in {F(x) : x \in {e}} : TRUE

\* board.every((cell) => cell !== null)
everyNonNull(board) == \A i \in Idx : board[i] # Null

----------------------------------------------------------------------------
(* Win/draw evaluator, room route copy *)

winningCombinations ==
    << <<0, 1, 2>>, <<3, 4, 5>>, <<6, 7, 8>>,
       <<0, 3, 6>>, <<1, 4, 7>>, <<2, 5, 8>>,
       <<0, 4, 8>>, <<2, 4, 6>> >>

\* the triple tests: board[a] truthy and equal to board[b] and board[c]
lineHit(board, k) ==
    LET a == winningCombinations[k][1]
        b == winningCombinations[k][2]
        c == winningCombinations[k][3]
    IN board[a] # Null /\ board[a] = board[b] /\ board[a] = board[c]

\* mutant: the last complete triple decides
checkBoardWinner_lastTriple(board) ==
    LET hits == {k \in 1..8 : lineHit(board, k)}
    IN IF hits # {}
       THEN LET final == CHOOSE k \in hits : \A j \in hits : k >= j
            IN board[winningCombinations[final][1]]
       ELSE IF everyNonNull(board) THEN "draw" ELSE Null

\* mutant: a full board without a line is not reported as drawn
checkBoardWinner_noDraw(board) ==
    LET hits == {k \in 1..8 : lineHit(board, k)}
    IN IF hits # {}
       THEN LET first == CHOOSE k \in hits : \A j \in hits : k <= j
            IN board[winningCombinations[first][1]]
       ELSE Null

checkBoardWinner(board) ==
    LET hits == {k \in 1..8 : lineHit(board, k)}
    IN IF hits # {}
       THEN LET first == CHOOSE k \in hits : \A j \in hits : k <= j
            IN board[winningCombinations[first][1]]
       ELSE IF everyNonNull(board) THEN "draw" ELSE Null

----------------------------------------------------------------------------
(* Room API *)

\* POST /api/game/create: the record stored for a new room
createRoom(roomId, playerId, t) ==
    [id |-> roomId,
     players |-> <<playerId>>,
     spectators |-> << >>,
     currentPlayer |-> "X",
     boards |-> EmptyBoards,
     mainBoard |-> EmptyBoard,
     nextBoardIndex |-> -1,
     gameOver |-> FALSE,
     winner |-> Null,
     lastMove |-> NoMove,
     lastUpdateTime |-> t]

\* mutant: a participant joining a full room is added to players
handleJoinRoom_thirdPlays(room, playerId, t) ==
    IF includes(room.players, playerId)
    THEN [answer |-> IF indexOf(room.players, playerId) = 0 THEN "X" ELSE "O",
          isHost |-> indexOf(room.players, playerId) = 0,
          room |-> room]
    ELSE [answer |-> "O",
          isHost |-> FALSE,
          room |-> [room EXCEPT !.players = Append(@, playerId),
                                !.lastUpdateTime = t]]

\* mutant: a spectator is pushed to spectators on every join
handleJoinRoom_alwaysPush(room, playerId, t) ==
    IF includes(room.players, playerId)
    THEN [answer |-> IF indexOf(room.players, playerId) = 0 THEN "X" ELSE "O",
          isHost |-> indexOf(room.players, playerId) = 0,
          room |-> room]
    ELSE IF Len(room.players) >= 2
    THEN [answer |-> "spectator",
          isHost |-> FALSE,
          room |-> [room EXCEPT !.spectators = Append(@, playerId)]]
    ELSE [answer |-> "O",
          isHost |-> FALSE,
          room |-> [room EXCEPT !.players = Append(@, playerId),
                                !.lastUpdateTime = t]]

\* mutant: the second player is put in front of the creator
handleJoinRoom_prepends(room, playerId, t) ==
    IF includes(room.players, playerId)
    THEN [answer |-> IF indexOf(room.players, playerId) = 0 THEN "X" ELSE "O",
          isHost |-> indexOf(room.players, playerId) = 0,
          room |-> room]
    ELSE IF Len(room.players) >= 2
    THEN [answer |-> "spectator",
          isHost |-> FALSE,
          room |-> IF ~includes(room.spectators, playerId)
                   THEN [room EXCEPT !.spectators = Append(@, playerId)]
                   ELSE room]
    ELSE [answer |-> "O",
          isHost |-> FALSE,
          room |-> [room EXCEPT !.players = <<playerId>> \o @,
                                !.lastUpdateTime = t]]

\* handleJoinRoom: the answered symbol and the room afterwards
handleJoinRoom(room, playerId, t) ==
    IF includes(room.players, playerId)
    THEN [answer |-> IF indexOf(room.players, playerId) = 0 THEN "X" ELSE "O",
          isHost |-> indexOf(room.players, playerId) = 0,
          room |-> room]
    ELSE IF Len(room.players) >= 2
    THEN [answer |-> "spectator",
          isHost |-> FALSE,
          room |-> IF ~includes(room.spectators, playerId)
                   THEN [room EXCEPT !.spectators = Append(@, playerId)]
                   ELSE room]
    ELSE [answer |-> "O",
          isHost |-> FALSE,
          room |-> [room EXCEPT !.players = Append(@, playerId),
                                !.lastUpdateTime = t]]

\* mutant: the turn of players[1] is not checked
notYourTurn_noSecondCheck(room, playerId) ==
    LET playerIndex == indexOf(room.players, playerId)
    IN \/ playerIndex = -1
       \/ (playerIndex = 0 /\ room.currentPlayer # "X")

\* mutant: a participant who is not in players is not turned away
notYourTurn_spectatorsPlay(room, playerId) ==
    LET playerIndex == indexOf(room.players, playerId)
    IN \/ (playerIndex = 0 /\ room.currentPlayer # "X")
       \/ (playerIndex = 1 /\ room.currentPlayer # "O")

\* mutant: the turn of players[0] is not checked
notYourTurn_noFirstCheck(room, playerId) ==
    LET playerIndex == indexOf(room.players, playerId)
    IN \/ playerIndex = -1
       \/ (playerIndex = 1 /\ room.currentPlayer # "O")

\* handleMakeMove, turn check
notYourTurn(room, playerId) ==
    LET playerIndex == indexOf(room.players, playerId)
    IN \/ playerIndex = -1
       \/ (playerIndex = 0 /\ room.currentPlayer # "X")
       \/ (playerIndex = 1 /\ room.currentPlayer # "O")

\* handleMakeMove, the required-board check
invalidBoard(room, boardIndex) ==
    /\ room.nextBoardIndex # -1
    /\ room.nextBoardIndex # boardIndex
    /\ room.mainBoard[room.nextBoardIndex] = Null

\* mutant: the "Board already won" check is missing
moveError_noWonCheck(room, playerId, boardIndex, cellIndex) ==
    IF notYourTurn(room, playerId) THEN "Not your turn"
    ELSE IF room.gameOver THEN "Game is over"
    ELSE IF invalidBoard(room, boardIndex) THEN "Invalid board"
    ELSE IF room.boards[boardIndex][cellIndex] # Null THEN "Cell already filled"
    ELSE ""

\* mutant: a cell counts as filled only when it holds X or O
moveError_filledIfMark(room, playerId, boardIndex, cellIndex) ==
    IF notYourTurn(room, playerId) THEN "Not your turn"
    ELSE IF room.gameOver THEN "Game is over"
    ELSE IF invalidBoard(room, boardIndex) THEN "Invalid board"
    ELSE IF at(room.mainBoard, boardIndex) # Null THEN "Board already won"
    ELSE IF at(room.boards[boardIndex], cellIndex) \in Marks THEN "Cell already filled"
    ELSE ""

\* handleMakeMove, the chain of early returns; "" when the move is accepted
moveError(room, playerId, boardIndex, cellIndex) ==
    IF notYourTurn(room, playerId) THEN "Not your turn"
    ELSE IF room.gameOver THEN "Game is over"
    ELSE IF invalidBoard(room, boardIndex) THEN "Invalid board"
    ELSE IF at(room.mainBoard, boardIndex) # Null THEN "Board already won"
    ELSE IF at(room.boards[boardIndex], cellIndex) # Null THEN "Cell already filled"
    ELSE ""

\* mutant: the two indices are swapped when the mark is written
placeMark_swapped(room, boardIndex, cellIndex) ==
    [room EXCEPT !.boards[cellIndex][boardIndex] = room.currentPlayer,
                 !.lastMove = <<boardIndex, cellIndex>>]

\* mutant: the move is recorded in lastMove and no cell is written
placeMark_onlyRecords(room, boardIndex, cellIndex) ==
    [room EXCEPT !.lastMove = <<boardIndex, cellIndex>>]

\* handleMakeMove, "Make the move"
placeMark(room, boardIndex, cellIndex) ==
    [room EXCEPT !.boards[boardIndex] = assign(@, cellIndex, room.currentPlayer),
                 !.lastMove = <<boardIndex, cellIndex>>]

\* mutant: the winner of the game is recorded and gameOver is not set
resolveBoard_noGameOver(room, boardIndex) ==
    LET boardWinner == checkBoardWinner(room.boards[boardIndex])
    IN IF boardWinner # Null
       THEN LET r1 == [room EXCEPT !.mainBoard[boardIndex] = boardWinner]
                gameWinner == checkBoardWinner(r1.mainBoard)
            IN IF gameWinner # Null
               THEN [r1 EXCEPT !.winner = gameWinner]
               ELSE r1
       ELSE room

\* mutant: a drawn sub-board is not recorded in mainBoard
resolveBoard_winsOnly(room, boardIndex) ==
    LET boardWinner == checkBoardWinner(room.boards[boardIndex])
    IN IF boardWinner \in Marks
       THEN LET r1 == [room EXCEPT !.mainBoard[boardIndex] = boardWinner]
                gameWinner == checkBoardWinner(r1.mainBoard)
            IN IF gameWinner # Null
               THEN [r1 EXCEPT !.winner = gameWinner, !.gameOver = TRUE]
               ELSE r1
       ELSE room

\* mutant: the game is credited to the player whose turn comes next
resolveBoard_creditsNext(room, boardIndex) ==
    LET boardWinner == checkBoardWinner(room.boards[boardIndex])
    IN IF boardWinner # Null
       THEN LET r1 == [room EXCEPT !.mainBoard[boardIndex] = boardWinner]
                gameWinner == checkBoardWinner(r1.mainBoard)
            IN IF gameWinner # Null
               THEN [r1 EXCEPT !.winner = IF gameWinner = "X" THEN "O"
                                          ELSE IF gameWinner = "O" THEN "X"
                                          ELSE gameWinner,
                               !.gameOver = TRUE]
               ELSE r1
       ELSE room

\* handleMakeMove, "Check if this move won the small board"
resolveBoard(room, boardIndex) ==
    LET boardWinner == checkBoardWinner(room.boards[boardIndex])
    IN IF boardWinner # Null
       THEN LET r1 == [room EXCEPT !.mainBoard[boardIndex] = boardWinner]
                gameWinner == checkBoardWinner(r1.mainBoard)
            IN IF gameWinner # Null
               THEN [r1 EXCEPT !.winner = gameWinner, !.gameOver = TRUE]
               ELSE r1
       ELSE room

\* mutant: the next board is the cell index even when that board is resolved
setNextBoard_noFallback(room, cellIndex) ==
    [room EXCEPT !.nextBoardIndex = cellIndex]

\* handleMakeMove, "Set the next board to play in"
setNextBoard(room, cellIndex) ==
    [room EXCEPT !.nextBoardIndex =
        IF at(room.mainBoard, cellIndex) = Null THEN cellIndex ELSE -1]

\* mutant: the turn is not passed on
switchPlayer_keeps(room) == room

\* handleMakeMove, "Switch player"
switchPlayer(room) ==
    [room EXCEPT !.currentPlayer = IF room.currentPlayer = "X" THEN "O" ELSE "X"]

\* handleMakeMove, "Check for draw"
checkDraw(room) ==
    IF ~room.gameOver /\ everyNonNull(room.mainBoard)
    THEN [room EXCEPT !.gameOver = TRUE, !.winner = "draw"]
    ELSE room

\* handleMakeMove, the mutation of an accepted move
applyMove(room, boardIndex, cellIndex, t) ==
    With(placeMark(room, boardIndex, cellIndex), LAMBDA r1 :
    With(resolveBoard(r1, boardIndex), LAMBDA r2 :
    With(setNextBoard(r2, cellIndex), LAMBDA r3 :
    With(switchPlayer(r3), LAMBDA r4 :
    With(checkDraw(r4), LAMBDA r5 :
         [r5 EXCEPT !.lastUpdateTime = t])))))

\* mutant: lastMove is recorded before the request is validated
handleMakeMove_recordsFirst(room, playerId, boardIndex, cellIndex, t) ==
    LET err == moveError(room, playerId, boardIndex, cellIndex)
    IN IF err # ""
       THEN [answer |-> err,
             room |-> [room EXCEPT !.lastMove = <<boardIndex, cellIndex>>]]
       ELSE [answer |-> "success",
             room |-> applyMove(room, boardIndex, cellIndex, t)]

handleMakeMove(room, playerId, boardIndex, cellIndex, t) ==
    LET err == moveError(room, playerId, boardIndex, cellIndex)
    IN IF err # ""
       THEN [answer |-> err, room |-> room]
       ELSE [answer |-> "success",
             room |-> applyMove(room, boardIndex, cellIndex, t)]

\* mutant: either player may reset
handleResetGame_anyPlayer(room, playerId, t) ==
    IF ~includes(room.players, playerId)
    THEN [answer |-> "Only host can reset the game", room |-> room]
    ELSE [answer |-> "success",
          room |-> [room EXCEPT !.boards = EmptyBoards,
                                !.mainBoard = EmptyBoard,
                                !.currentPlayer = "X",
                                !.nextBoardIndex = -1,
                                !.gameOver = FALSE,
                                !.winner = Null,
                                !.lastMove = NoMove,
                                !.lastUpdateTime = t]]

\* mutant: a reset that leaves gameOver and winner as they are
handleResetGame_keepsOutcome(room, playerId, t) ==
    IF room.players[1] # playerId
    THEN [answer |-> "Only host can reset the game", room |-> room]
    ELSE [answer |-> "success",
          room |-> [room EXCEPT !.boards = EmptyBoards,
                                !.mainBoard = EmptyBoard,
                                !.currentPlayer = "X",
                                !.nextBoardIndex = -1,
                                !.lastMove = NoMove,
                                !.lastUpdateTime = t]]

handleResetGame(room, playerId, t) ==
    IF room.players[1] # playerId
    THEN [answer |-> "Only host can reset the game", room |-> room]
    ELSE [answer |-> "success",
          room |-> [room EXCEPT !.boards = EmptyBoards,
                                !.mainBoard = EmptyBoard,
                                !.currentPlayer = "X",
                                !.nextBoardIndex = -1,
                                !.gameOver = FALSE,
                                !.winner = Null,
                                !.lastMove = NoMove,
                                !.lastUpdateTime = t]]

----------------------------------------------------------------------------
(* Local game of the UI component *)

WINNING_COMBINATIONS ==
    << <<0, 1, 2>>, <<3, 4, 5>>, <<6, 7, 8>>,
       <<0, 3, 6>>, <<1, 4, 7>>, <<2, 5, 8>>,
       <<0, 4, 8>>, <<2, 4, 6>> >>

\* the component's copy of the evaluator
checkBoardWinnerLocal(board) ==
    LET hit(k) == LET a == WINNING_COMBINATIONS[k][1]
                      b == WINNING_COMBINATIONS[k][2]
                      c == WINNING_COMBINATIONS[k][3]
                  IN board[a] # Null /\ board[a] = board[b] /\ board[a] = board[c]
        hits == {k \in 1..8 : hit(k)}
    IN IF hits # {}
       THEN LET first == CHOOSE k \in hits : \A j \in hits : k <= j
            IN board[WINNING_COMBINATIONS[first][1]]
       ELSE IF everyNonNull(board) THEN "draw" ELSE Null

\* the component's game state at its first render (the useState defaults)
initialGame ==
    [boards |-> EmptyBoards,
     mainBoard |-> EmptyBoard,
     currentPlayer |-> "X",
     nextBoardIndex |-> -1,
     gameOver |-> FALSE,
     winner |-> Null,
     lastMove |-> NoMove]

\* handleMove, local and AI modes: the early returns
moveIgnored(g, boardIndex, cellIndex) ==
    \/ g.gameOver
    \/ (g.nextBoardIndex # -1 /\ g.nextBoardIndex # boardIndex
            /\ g.mainBoard[g.nextBoardIndex] = Null)
    \/ g.mainBoard[boardIndex] # Null
    \/ g.boards[boardIndex][cellIndex] # Null

\* handleMove: the next board is read from the mainBoard of the render that
\* created the handler, not from newMainBoard
nextBoard(g, cellIndex) ==
    IF g.mainBoard[cellIndex] = Null THEN cellIndex ELSE -1

\* handleMove, local and AI modes: the state set by an applied move
localMove(g, boardIndex, cellIndex) ==
    LET newBoards == [g.boards EXCEPT ![boardIndex][cellIndex] = g.currentPlayer]
        g1 == [g EXCEPT !.boards = newBoards,
                        !.lastMove = <<boardIndex, cellIndex>>]
        boardWinner == checkBoardWinnerLocal(newBoards[boardIndex])
        newMainBoard == [g.mainBoard EXCEPT ![boardIndex] = boardWinner]
        g2 == IF boardWinner # Null THEN [g1 EXCEPT !.mainBoard = newMainBoard]
              ELSE g1
        gameWinner == checkBoardWinnerLocal(newMainBoard)
    IN IF boardWinner # Null /\ gameWinner # Null
       THEN [g2 EXCEPT !.winner = gameWinner, !.gameOver = TRUE]
       ELSE [g2 EXCEPT !.nextBoardIndex = nextBoard(g, cellIndex),
                       !.currentPlayer =
                           IF g.currentPlayer = "X" THEN "O" ELSE "X"]

\* the effect "Check if the entire game is a draw", run after a render
drawEffect(g) ==
    IF ~g.gameOver /\ everyNonNull(g.mainBoard)
    THEN LET gameWinner == checkBoardWinnerLocal(g.mainBoard)
         IN [g EXCEPT !.winner = IF gameWinner # Null THEN gameWinner ELSE "draw",
                      !.gameOver = TRUE]
    ELSE g

\* handleMove in local and AI modes, with the effects of the following render
handleMove(g, boardIndex, cellIndex) ==
    IF moveIgnored(g, boardIndex, cellIndex)
    THEN [answer |-> "ignored", game |-> g]
    ELSE [answer |-> "applied",
          game |-> drawEffect(localMove(g, boardIndex, cellIndex))]

\* resetGame in local and AI modes
resetGame(g) ==
    drawEffect([g EXCEPT !.boards = EmptyBoards,
                         !.mainBoard = EmptyBoard,
                         !.currentPlayer = "X",
                         !.nextBoardIndex = -1,
                         !.gameOver = FALSE,
                         !.winner = Null,
                         !.lastMove = NoMove])

----------------------------------------------------------------------------
(* Starting positions: recorded games, replayed through the handlers *)

\* X wins sub-boards 7, 4 and 1; the 15th move (4,4) resolves sub-board 4 and
\* the 19th move (1,7) wins the game
GameX ==
    << <<2, 2>>, <<2, 4>>, <<4, 5>>, <<5, 7>>, <<7, 2>>, <<2, 7>>, <<7, 0>>,
       <<0, 7>>, <<7, 1>>, <<1, 4>>, <<4, 3>>, <<3, 1>>, <<1, 6>>, <<6, 4>>,
       <<4, 4>>, <<1, 1>>, <<1, 8>>, <<8, 1>>, <<1, 7>> >>

\* sub-boards 1 and 2 end drawn; the 45th move (0,8) draws sub-board 0
GameDraw ==
    << <<0, 1>>, <<1, 1>>, <<1, 0>>, <<0, 2>>, <<2, 0>>, <<0, 0>>, <<0, 3>>,
       <<3, 2>>, <<2, 2>>, <<2, 1>>, <<1, 2>>, <<2, 6>>, <<6, 0>>, <<0, 6>>,
       <<6, 2>>, <<2, 3>>, <<3, 0>>, <<0, 5>>, <<5, 0>>, <<0, 7>>, <<7, 1>>,
       <<1, 4>>, <<4, 1>>, <<1, 3>>, <<3, 1>>, <<1, 8>>, <<8, 2>>, <<2, 8>>,
       <<8, 1>>, <<1, 6>>, <<6, 6>>, <<6, 1>>, <<1, 5>>, <<5, 1>>, <<1, 7>>,
       <<7, 2>>, <<2, 5>>, <<5, 2>>, <<2, 7>>, <<7, 0>>, <<0, 4>>, <<4, 2>>,
       <<2, 4>>, <<4, 0>>, <<0, 8>> >>

Openings ==
    {SubSeq(GameX, 1, n) : n \in {0, 14, 18}}
        \cup {SubSeq(GameDraw, 1, Len(GameDraw) - 1)}

\* the participant whose turn it is: players[0] plays X, players[1] plays O
mover(room) ==
    IF room.currentPlayer = "X" THEN room.players[1] ELSE room.players[2]

\* the moves are requested in turn by the participant to move; the replay
\* stops at a move that is not accepted
RECURSIVE replayRoom(_, _)
replayRoom(room, moves) ==
    IF moves = << >> THEN room
    ELSE LET res == handleMakeMove(room, mover(room), Head(moves)[1],
                                   Head(moves)[2], room.lastUpdateTime)
         IN IF res.answer = "success"
            THEN replayRoom(res.room, Tail(moves))
            ELSE room

RECURSIVE replayLocal(_, _)
replayLocal(g, moves) ==
    IF moves = << >> THEN g
    ELSE LET res == handleMove(g, Head(moves)[1], Head(moves)[2])
         IN IF res.answer = "applied"
            THEN replayLocal(res.game, Tail(moves))
            ELSE g

\* number of marks on the 81 cells
marks(bs) == Cardinality({bc \in Idx \X Idx : bs[bc[1]][bc[2]] # Null})

----------------------------------------------------------------------------
(* State machine *)

NoRooms == [r \in {} |-> Null]

\* no request has changed the state yet
NoRequest == [op |-> "none", playerId |-> ""]

setGame(g) ==
    /\ boards' = g.boards
    /\ mainBoard' = g.mainBoard
    /\ currentPlayer' = g.currentPlayer
    /\ nextBoardIndex' = g.nextBoardIndex
    /\ gameOver' = g.gameOver
    /\ winner' = g.winner
    /\ lastMove' = g.lastMove

game ==
    [boards |-> boards,
     mainBoard |-> mainBoard,
     currentPlayer |-> currentPlayer,
     nextBoardIndex |-> nextBoardIndex,
     gameOver |-> gameOver,
     winner |-> winner,
     lastMove |-> lastMove]

\* the component's game state is g
gameIs(g) ==
    /\ boards = g.boards
    /\ mainBoard = g.mainBoard
    /\ currentPlayer = g.currentPlayer
    /\ nextBoardIndex = g.nextBoardIndex
    /\ gameOver = g.gameOver
    /\ winner = g.winner
    /\ lastMove = g.lastMove

\* multiplayer: a room created by the host, alone or with the second player
\* joined and a recorded game replayed
InitRoom ==
    /\ gameMode = "multiplayer"
    /\ \/ gameRooms = [r \in {RoomId} |-> createRoom(RoomId, Host, 0)]
       \/ \E o \in Openings :
             gameRooms = [r \in {RoomId} |->
                 replayRoom(handleJoinRoom(createRoom(RoomId, Host, 0), "B", 0).room, o)]
    /\ gameIs(initialGame)

\* local mode: no room, the component's own game
InitLocal ==
    /\ gameMode = "local"
    /\ gameRooms = NoRooms
    /\ \E o \in Openings : gameIs(replayLocal(initialGame, o))

\* useState<GameRoom | null>(null): the client holds no room
NoRoom == [id |-> Null]

\* no request is in flight and the polling client holds no room
NoTraffic ==
    /\ pending = {}
    /\ clientRoom = NoRoom
    /\ responses = {}

\* no timer callback of makeAIMove is waiting
NoCallback == [scheduled |-> FALSE]

\* useState<boolean>(false): the AI is not thinking, no callback is scheduled
NotThinking ==
    /\ aiThinking = FALSE
    /\ deferred = NoCallback

\* useState<Player>("O") and useState<number>(4): the AI settings as the
\* component first renders them
DefaultAI ==
    /\ aiPlayer = "O"
    /\ aiDepth = 4
    /\ NotThinking

\* no board has been handed to the evaluators
NotEvaluated == [route |-> "pending", component |-> "pending", store |-> "pending"]

NoEvaluation ==
    /\ evalBoard = EmptyBoard
    /\ evalAnswer = NotEvaluated

Init ==
    /\ now = 0
    /\ accepted = 0
    /\ last = NoRequest
    /\ NoTraffic
    /\ DefaultAI
    /\ NoEvaluation
    /\ (InitRoom \/ InitLocal)

\* Date.now(): a reading no earlier than the latest one
clockReadings == now..MaxClock

\* the room record of r becomes the handler's result `res`; `last` names the
\* latest move or reset that changed the record
roomStep(r, op, p, res) ==
    IF res.room = gameRooms[r]
    THEN UNCHANGED <<gameRooms, now, last>>
    ELSE /\ gameRooms' = [gameRooms EXCEPT ![r] = res.room]
         /\ now' = IF res.room.lastUpdateTime > now
                   THEN res.room.lastUpdateTime ELSE now
         /\ last' = IF op = "join" THEN last ELSE [op |-> op, playerId |-> p]

\* POST {action: "join"}; Date.now() is read when the second player is added
Join(r, p) ==
    /\ r \in DOMAIN gameRooms
    /\ \E t \in IF ~includes(gameRooms[r].players, p) /\ Len(gameRooms[r].players) < 2
                 THEN clockReadings ELSE {now} :
          roomStep(r, "join", p, handleJoinRoom(gameRooms[r], p, t))
    /\ UNCHANGED <<accepted, gameMode, aiVars, evalVars, localVars, netVars>>

\* POST {action: "move"}; Date.now() is read when the move is accepted
MakeMove(r, p, b, c) ==
    /\ r \in DOMAIN gameRooms
    /\ LET res == handleMakeMove(gameRooms[r], p, b, c, now)
       IN IF res.answer # "success"
          THEN /\ roomStep(r, "move", p, res)
               /\ UNCHANGED accepted
          ELSE /\ accepted < MaxMoves
               /\ accepted' = accepted + 1
               /\ \E t \in clockReadings :
                     roomStep(r, "move", p,
                              handleMakeMove(gameRooms[r], p, b, c, t))
    /\ UNCHANGED <<gameMode, aiVars, evalVars, localVars, netVars>>

\* POST {action: "reset"}; Date.now() is read when the reset is accepted
Reset(r, p) ==
    /\ r \in DOMAIN gameRooms
    /\ \E t \in IF gameRooms[r].players[1] = p THEN clockReadings ELSE {now} :
          roomStep(r, "reset", p, handleResetGame(gameRooms[r], p, t))
    /\ UNCHANGED <<accepted, gameMode, aiVars, evalVars, localVars, netVars>>

\* a click on a cell in local mode
LocalMove(b, c) ==
    /\ gameMode = "local"
    /\ LET res == handleMove(game, b, c)
       IN /\ res.answer = "applied" => accepted < MaxMoves
          /\ accepted' = IF res.answer = "applied" THEN accepted + 1 ELSE accepted
          /\ setGame(res.game)
          /\ last' = IF res.answer = "applied"
                     THEN [op |-> "handleMove", playerId |-> currentPlayer]
                     ELSE last
    /\ UNCHANGED <<gameMode, aiVars, evalVars, roomVars, netVars>>

\* the reset button in local mode
LocalReset ==
    /\ gameMode = "local"
    /\ setGame(resetGame(game))
    /\ last' = [op |-> "resetGame", playerId |-> ""]
    /\ UNCHANGED <<accepted, gameMode, aiVars, evalVars, roomVars, netVars>>

Next ==
    \/ \E r \in {RoomId}, p \in Participants : Join(r, p)
    \/ \E r \in {RoomId}, p \in Participants, b \in Idx, c \in Idx : MakeMove(r, p, b, c)
    \/ \E r \in {RoomId}, p \in Participants : Reset(r, p)
    \/ \E b \in Idx, c \in Idx : LocalMove(b, c)
    \/ LocalReset

Spec == Init /\ [][Next]_vars

----------------------------------------------------------------------------
(* The local game and a room given the same move attempts *)

\* a room with both players joined and the component in local mode, after
\* the same recorded attempts
InitPair ==
    /\ now = 0
    /\ accepted = 0
    /\ last = NoRequest
    /\ NoTraffic
    /\ DefaultAI
    /\ NoEvaluation
    /\ gameMode = "local"
    /\ \E o \in Openings :
          /\ gameRooms = [r \in {RoomId} |->
                 replayRoom(handleJoinRoom(createRoom(RoomId, Host, 0), "B", 0).room, o)]
          /\ gameIs(replayLocal(initialGame, o))

\* the attempt (b, c) is clicked in the local game and requested in the room
\* by the participant whose turn it is
PairMove(r, b, c) ==
    /\ r \in DOMAIN gameRooms
    /\ LET p == mover(gameRooms[r])
           resL == handleMove(game, b, c)
           resR == handleMakeMove(gameRooms[r], p, b, c, now)
           moved == resL.answer = "applied" \/ resR.answer = "success"
       IN /\ moved => accepted < MaxMoves
          /\ accepted' = IF moved THEN accepted + 1 ELSE accepted
          /\ setGame(resL.game)
          /\ \E t \in IF resR.answer = "success" THEN clockReadings ELSE {now} :
                roomStep(r, "move", p, handleMakeMove(gameRooms[r], p, b, c, t))
    /\ UNCHANGED <<gameMode, aiVars, evalVars, netVars>>

\* the reset button in the local game and the host's reset request in the room
PairReset(r) ==
    /\ r \in DOMAIN gameRooms
    /\ setGame(resetGame(game))
    /\ \E t \in clockReadings :
          roomStep(r, "reset", Host, handleResetGame(gameRooms[r], Host, t))
    /\ UNCHANGED <<accepted, gameMode, aiVars, evalVars, netVars>>

NextPair ==
    \/ \E r \in {RoomId}, b \in Idx, c \in Idx : PairMove(r, b, c)
    \/ \E r \in {RoomId} : PairReset(r)

SpecPair == InitPair /\ [][NextPair]_vars

----------------------------------------------------------------------------
(* The server with several requests in progress *)

\* POST awaits request.json() before it looks at the room: requests that
\* have arrived wait in `pending` and their handlers run one at a time, each
\* from the lookup of the room to the answer without interruption.  `at` is
\* the number of moves accepted when the request arrived.
request(op, p, b, c) ==
    [op |-> op, playerId |-> p, boardIndex |-> b, cellIndex |-> c,
     at |-> accepted]

\* the cells asked for by the move requests
Clicks == {<<1, 7>>, <<1, 0>>}

InitServer ==
    /\ now = 0
    /\ accepted = 0
    /\ last = NoRequest
    /\ NoTraffic
    /\ DefaultAI
    /\ NoEvaluation
    /\ gameMode = "multiplayer"
    /\ gameIs(initialGame)
    /\ \/ gameRooms = [r \in {RoomId} |-> createRoom(RoomId, Host, 0)]
       \/ gameRooms = [r \in {RoomId} |->
              replayRoom(handleJoinRoom(createRoom(RoomId, Host, 0), "B", 0).room,
                         SubSeq(GameX, 1, 18))]

\* POST is called: the request waits for its body
Receive(q) ==
    /\ Cardinality(pending) < MaxPending
    /\ q \notin pending
    /\ pending' = pending \cup {q}
    /\ UNCHANGED <<gameRooms, now, accepted, last, gameMode, aiVars, evalVars, localVars,
                   clientRoom, responses>>

\* the switch of POST: the handler of the request's action
dispatch(room, q, t) ==
    IF q.op = "join" THEN handleJoinRoom(room, q.playerId, t)
    ELSE IF q.op = "move"
    THEN handleMakeMove(room, q.playerId, q.boardIndex, q.cellIndex, t)
    ELSE handleResetGame(room, q.playerId, t)

\* the body of a waiting request has been read: its handler runs
Handle(r, q) ==
    /\ r \in DOMAIN gameRooms
    /\ q \in pending
    /\ pending' = pending \ {q}
    /\ LET moved == q.op = "move" /\ dispatch(gameRooms[r], q, now).answer = "success"
       IN /\ moved => accepted < MaxMoves
          /\ accepted' = IF moved THEN accepted + 1 ELSE accepted
          /\ \E t \in IF dispatch(gameRooms[r], q, now).room.lastUpdateTime
                            # dispatch(gameRooms[r], q, now + 1).room.lastUpdateTime
                       THEN clockReadings ELSE {now} :
                roomStep(r, q.op, q.playerId, dispatch(gameRooms[r], q, t))
    /\ UNCHANGED <<gameMode, aiVars, evalVars, localVars, clientRoom, responses>>

NextServer ==
    \/ \E p \in Participants : Receive(request("join", p, -1, -1))
    \/ \E p \in Participants, bc \in Clicks : Receive(request("move", p, bc[1], bc[2]))
    \/ \E p \in Participants : Receive(request("reset", p, -1, -1))
    \/ \E r \in {RoomId}, q \in pending : Handle(r, q)

SpecServer == InitServer /\ [][NextServer]_vars

----------------------------------------------------------------------------
(* The polling client (useMultiplayer) of one participant *)

\* the participant whose client is followed: the creator of the room
Client == Host

\* the participant who joins and plays against the client
Opponents == {"B"}

\* a || b where a is a number: b when a is 0, a otherwise
numberOr(a, b) == IF a = 0 THEN b ELSE a

\* a || b where a is a boolean
booleanOr(a, b) == IF a THEN a ELSE b

\* a || b where a is a string or null: b when a is null (no field of the room
\* holds the empty string)
stringOr(a, b) == IF a = Null THEN b ELSE a

\* the "game state helpers" returned by useMultiplayer for the room it holds
helpers(room) ==
    IF room.id = Null
    THEN [currentPlayer |-> "X", nextBoardIndex |-> -1, gameOver |-> FALSE,
          winner |-> Null]
    ELSE [currentPlayer |-> stringOr(room.currentPlayer, "X"),
          nextBoardIndex |-> numberOr(room.nextBoardIndex, -1),
          gameOver |-> booleanOr(room.gameOver, FALSE),
          winner |-> stringOr(room.winner, Null)]

\* a response on its way to the client: the room it carries and, for a poll,
\* room.lastUpdateTime of the render whose interval sent the request
response(op, room, seen) == [op |-> op, room |-> room, seen |-> seen]

\* createRoom of the client has been answered: it holds the room it created
InitClient ==
    /\ now = 0
    /\ accepted = 0
    /\ last = NoRequest
    /\ gameMode = "multiplayer"
    /\ gameIs(initialGame)
    /\ gameRooms = [r \in {RoomId} |-> createRoom(RoomId, Client, 0)]
    /\ clientRoom = gameRooms[RoomId]
    /\ pending = {}
    /\ responses = {}
    /\ DefaultAI
    /\ NoEvaluation

\* a tick of the polling interval: GET answers the room as it is
Poll(r) ==
    /\ clientRoom.id # Null
    /\ r = clientRoom.id
    /\ r \in DOMAIN gameRooms
    /\ Cardinality(responses) < MaxResponses
    /\ responses' = responses \cup
           {response("poll", gameRooms[r], clientRoom.lastUpdateTime)}
    /\ UNCHANGED <<gameRooms, now, accepted, last, gameMode, aiVars, evalVars, localVars,
                   pending, clientRoom>>

\* makeMove of the client: the request is handled; an ok answer carries the
\* room, an error answer only sets the error message
ClientMove(b, c) ==
    /\ clientRoom.id # Null
    /\ Cardinality(responses) < MaxResponses
    /\ LET r == clientRoom.id
           ok == handleMakeMove(gameRooms[r], Client, b, c, now).answer = "success"
       IN /\ ok => accepted < MaxMoves
          /\ accepted' = IF ok THEN accepted + 1 ELSE accepted
          /\ \E t \in IF ok THEN clockReadings ELSE {now} :
                /\ roomStep(r, "move", Client,
                            handleMakeMove(gameRooms[r], Client, b, c, t))
                /\ responses' = IF ok
                                THEN responses \cup {response("move", gameRooms'[r], -1)}
                                ELSE responses
    /\ UNCHANGED <<gameMode, aiVars, evalVars, localVars, pending, clientRoom>>

\* resetGame of the client
ClientReset ==
    /\ clientRoom.id # Null
    /\ Cardinality(responses) < MaxResponses
    /\ LET r == clientRoom.id
           ok == handleResetGame(gameRooms[r], Client, now).answer = "success"
       IN \E t \in IF ok THEN clockReadings ELSE {now} :
             /\ roomStep(r, "reset", Client, handleResetGame(gameRooms[r], Client, t))
             /\ responses' = IF ok
                             THEN responses \cup {response("reset", gameRooms'[r], -1)}
                             ELSE responses
    /\ UNCHANGED <<accepted, gameMode, aiVars, evalVars, localVars, pending, clientRoom>>

\* a response arrives: a poll is applied when its room is newer than the
\* room of the render that sent it; a move or reset answer is always applied
Deliver(resp) ==
    /\ resp \in responses
    /\ responses' = responses \ {resp}
    /\ clientRoom' = IF resp.op = "poll"
                     THEN IF resp.room.lastUpdateTime > resp.seen
                          THEN resp.room ELSE clientRoom
                     ELSE resp.room
    /\ UNCHANGED <<gameRooms, now, accepted, last, gameMode, aiVars, evalVars, localVars, pending>>

NextClient ==
    \/ \E r \in {RoomId} : Poll(r)
    \/ \E bc \in Clicks : ClientMove(bc[1], bc[2])
    \/ ClientReset
    \/ \E resp \in responses : Deliver(resp)
    \/ \E r \in {RoomId}, p \in Opponents : Join(r, p)
    \/ \E r \in {RoomId}, p \in Opponents, bc \in Clicks :
          MakeMove(r, p, bc[1], bc[2])

SpecClient == InitClient /\ [][NextClient]_vars

\* the participants who join after the client and its opponent: spectators,
\* or the second player when they join before the opponent
Watchers == Participants \ ({Client} \cup Opponents)

\* a tick of the polling interval or the arrival of an answer
Polling ==
    \/ \E r \in {RoomId} : Poll(r)
    \/ \E resp \in responses : Deliver(resp)

NextWatched ==
    \/ NextClient
    \/ \E r \in {RoomId}, p \in Watchers : Join(r, p)

\* the interval keeps ticking (setInterval, re-created on every setRoom) and
\* every fetch is answered
LiveClient ==
    /\ InitClient
    /\ [][NextWatched]_vars
    /\ WF_vars(\E r \in {RoomId} : Poll(r))
    /\ WF_vars(\E resp \in responses : Deliver(resp))

----------------------------------------------------------------------------
(* Properties *)

----------------------------------------------------------------------------
(* The room store with room creation: ids are drawn by Math.random *)

----------------------------------------------------------------------------
(* The AI of the component: evaluateBoard and minimax *)

\* Number.POSITIVE_INFINITY; no score reaches it
Infinity == 1000000

\* one line of the scoring loops: playerCount and opponentCount of the line
\* decide; emptyCount is computed and never read
lineScore(cells, line, player, weight) ==
    LET opponent == IF player = "X" THEN "O" ELSE "X"
        count(mark) == (IF cells[line[1]] = mark THEN 1 ELSE 0)
                       + (IF cells[line[2]] = mark THEN 1 ELSE 0)
                       + (IF cells[line[3]] = mark THEN 1 ELSE 0)
        playerCount == count(player)
        opponentCount == count(opponent)
    IN (IF playerCount > 0 /\ opponentCount = 0 THEN playerCount * weight ELSE 0)
       - (IF opponentCount > 0 /\ playerCount = 0 THEN opponentCount * weight ELSE 0)

\* for (const [a, b, c] of WINNING_COMBINATIONS): the first k lines
RECURSIVE linesScore(_, _, _, _)
linesScore(cells, player, weight, k) ==
    IF k = 0 THEN 0
    ELSE linesScore(cells, player, weight, k - 1)
         + lineScore(cells, WINNING_COMBINATIONS[k], player, weight)

\* for (let boardIndex = 0; boardIndex < 9; boardIndex++): sub-boards
\* boardIndex..8, those with a mainBoard entry skipped
RECURSIVE boardsScore(_, _, _)
boardsScore(g, player, boardIndex) ==
    IF boardIndex > 8 THEN 0
    ELSE (IF g.mainBoard[boardIndex] = Null
          THEN linesScore(g.boards[boardIndex], player, 1, 8)
          ELSE 0)
         + boardsScore(g, player, boardIndex + 1)

\* evaluateBoard(player): reads boards and mainBoard of the component state
\* g of the render that created it
evaluateBoard(g, player) ==
    LET opponent == IF player = "X" THEN "O" ELSE "X"
        gameWinner == checkBoardWinnerLocal(g.mainBoard)
    IN IF gameWinner = player THEN 1000
       ELSE IF gameWinner = opponent THEN -1000
       ELSE IF gameWinner = "draw" THEN 0
       ELSE linesScore(g.mainBoard, player, 10, 8) + boardsScore(g, player, 0)

\* the empty cells of one sub-board, cells 0..8 in order
emptyCells(tempBoards, boardIndex) ==
    SelectSeq([i \in 1..9 |-> <<boardIndex, i - 1>>],
              LAMBDA move : tempBoards[move[1]][move[2]] = Null)

\* the empty cells of the unresolved sub-boards boardIndex..8 in order
RECURSIVE anyBoard(_, _, _)
anyBoard(tempBoards, tempMainBoard, boardIndex) ==
    IF boardIndex > 8 THEN << >>
    ELSE (IF tempMainBoard[boardIndex] = Null
          THEN emptyCells(tempBoards, boardIndex) ELSE << >>)
         \o anyBoard(tempBoards, tempMainBoard, boardIndex + 1)

\* mutant: the required sub-board is not looked at
validMoves_anyBoard(tempBoards, tempMainBoard, currentNextBoardIndex) ==
    anyBoard(tempBoards, tempMainBoard, 0)

\* minimax: the list validMoves in the order it is pushed
validMoves(tempBoards, tempMainBoard, currentNextBoardIndex) ==
    IF currentNextBoardIndex # -1 /\ tempMainBoard[currentNextBoardIndex] = Null
    THEN emptyCells(tempBoards, currentNextBoardIndex)
    ELSE anyBoard(tempBoards, tempMainBoard, 0)

\* minimax: the position after `mark` is placed at `move`
simulate(tempBoards, tempMainBoard, move, mark) ==
    LET newBoards == [tempBoards EXCEPT ![move[1]][move[2]] = mark]
        boardWinner == checkBoardWinnerLocal(newBoards[move[1]])
        newMainBoard == IF boardWinner # Null
                        THEN [tempMainBoard EXCEPT ![move[1]] = boardWinner]
                        ELSE tempMainBoard
    IN [boards |-> newBoards,
        mainBoard |-> newMainBoard,
        nextBoardIndex |-> IF newMainBoard[move[2]] = Null THEN move[2] ELSE -1]

\* minimax: the returns ahead of move generation; final is FALSE when the
\* node goes on to generate moves
baseCase(evaluate, depth, player, tempMainBoard) ==
    LET gameWinner == checkBoardWinnerLocal(tempMainBoard)
    IN IF gameWinner = player THEN [final |-> TRUE, score |-> 100 + depth]
       ELSE IF gameWinner = (IF player = "X" THEN "O" ELSE "X")
            THEN [final |-> TRUE, score |-> -100 - depth]
       ELSE IF gameWinner = "draw" THEN [final |-> TRUE, score |-> 0]
       ELSE IF depth = 0 THEN [final |-> TRUE, score |-> evaluate[player]]
       ELSE [final |-> FALSE, score |-> 0]

RECURSIVE minimax(_, _, _, _, _, _, _, _, _)

\* mutant: a move of equal score replaces bestMove
maximize_takesTies(evaluate, depth, player, tempBoards, tempMainBoard, move, loop) ==
    With(simulate(tempBoards, tempMainBoard, move, player), LAMBDA new :
    With(minimax(evaluate, depth - 1, loop.alpha, loop.beta, FALSE, player, new.boards, new.mainBoard, new.nextBoardIndex), LAMBDA evalResult :
        LET better == evalResult.score >= loop.eval
            alpha1 == IF evalResult.score > loop.alpha
                     THEN evalResult.score ELSE loop.alpha
        IN [alpha    |-> alpha1,
            beta     |-> loop.beta,
            eval     |-> IF better THEN evalResult.score ELSE loop.eval,
            bestMove |-> IF better THEN move ELSE loop.bestMove,
            break    |-> loop.beta <= alpha1]))

\* one pass of the body of the isMaximizing loop; loop carries alpha, beta,
\* maxEval (eval), bestMove and whether the loop has hit its break
maximize(evaluate, depth, player, tempBoards, tempMainBoard, move, loop) ==
    With(simulate(tempBoards, tempMainBoard, move, player), LAMBDA new :
    With(minimax(evaluate, depth - 1, loop.alpha, loop.beta, FALSE, player, new.boards, new.mainBoard, new.nextBoardIndex), LAMBDA evalResult :
        LET better == evalResult.score > loop.eval
            alpha1 == IF evalResult.score > loop.alpha
                     THEN evalResult.score ELSE loop.alpha
        IN [alpha    |-> alpha1,
            beta     |-> loop.beta,
            eval     |-> IF better THEN evalResult.score ELSE loop.eval,
            bestMove |-> IF better THEN move ELSE loop.bestMove,
            break    |-> loop.beta <= alpha1]))

\* mutant: the minimizing loop breaks while beta is still above alpha
minimize_cutsEarly(evaluate, depth, player, tempBoards, tempMainBoard, move, loop) ==
    With(simulate(tempBoards, tempMainBoard, move, IF player = "X" THEN "O" ELSE "X"), LAMBDA new :
    With(minimax(evaluate, depth - 1, loop.alpha, loop.beta, TRUE, player, new.boards, new.mainBoard, new.nextBoardIndex), LAMBDA evalResult :
        LET better == evalResult.score < loop.eval
            beta1 == IF evalResult.score < loop.beta
                     THEN evalResult.score ELSE loop.beta
        IN [alpha    |-> loop.alpha,
            beta     |-> beta1,
            eval     |-> IF better THEN evalResult.score ELSE loop.eval,
            bestMove |-> IF better THEN move ELSE loop.bestMove,
            break    |-> loop.alpha <= beta1]))

\* one pass of the body of the minimizing loop; eval is minEval
minimize(evaluate, depth, player, tempBoards, tempMainBoard, move, loop) ==
    With(simulate(tempBoards, tempMainBoard, move, IF player = "X" THEN "O" ELSE "X"), LAMBDA new :
    With(minimax(evaluate, depth - 1, loop.alpha, loop.beta, TRUE, player, new.boards, new.mainBoard, new.nextBoardIndex), LAMBDA evalResult :
        LET better == evalResult.score < loop.eval
            beta1 == IF evalResult.score < loop.beta
                     THEN evalResult.score ELSE loop.beta
        IN [alpha    |-> loop.alpha,
            beta     |-> beta1,
            eval     |-> IF better THEN evalResult.score ELSE loop.eval,
            bestMove |-> IF better THEN move ELSE loop.bestMove,
            break    |-> beta1 <= loop.alpha]))

\* for (const move of validMoves): the passes for moves[lo..hi] in order,
\* none after a break; the range is halved so that the evaluation nests
\* no deeper than the logarithm of its length
RECURSIVE forMoves(_, _, _, _, _, _, _, _, _, _)
forMoves(evaluate, depth, isMaximizing, player, tempBoards, tempMainBoard, moves, lo, hi, loop) ==
    IF loop.break \/ lo > hi THEN loop
    ELSE IF lo = hi
         THEN IF isMaximizing
              THEN maximize(evaluate, depth, player, tempBoards, tempMainBoard,
                            moves[lo], loop)
              ELSE minimize(evaluate, depth, player, tempBoards, tempMainBoard,
                            moves[lo], loop)
    ELSE With(forMoves(evaluate, depth, isMaximizing, player, tempBoards, tempMainBoard, moves, lo, (lo + hi) \div 2, loop), LAMBDA left :
              forMoves(evaluate, depth, isMaximizing, player, tempBoards,
                       tempMainBoard, moves, ((lo + hi) \div 2) + 1, hi, left))

\* minimax; evaluate is the evaluateBoard callback it was created with
minimax(evaluate, depth, alpha, beta, isMaximizing, player, currentBoards, currentMainBoard, currentNextBoardIndex) ==
    LET base == baseCase(evaluate, depth, player, currentMainBoard)
        start == [alpha    |-> alpha,
                  beta     |-> beta,
                  eval     |-> IF isMaximizing THEN -Infinity ELSE Infinity,
                  bestMove |-> NoMove,
                  break    |-> FALSE]
    IN IF base.final THEN [score |-> base.score, move |-> NoMove]
       ELSE With(validMoves(currentBoards, currentMainBoard, currentNextBoardIndex), LAMBDA moves :
            IF Len(moves) = 0 THEN [score |-> 0, move |-> NoMove]
            ELSE With(forMoves(evaluate, depth, isMaximizing, player, currentBoards, currentMainBoard, moves, 1, Len(moves), start), LAMBDA loop :
                 [score |-> loop.eval, move |-> loop.bestMove]))

\* the evaluateBoard callback of the render whose component state is g:
\* it reads that render's boards and mainBoard whatever position minimax
\* has reached
evaluateBoardOf(g) ==
    [X |-> evaluateBoard(g, "X"), O |-> evaluateBoard(g, "O")]

\* makeAIMove: the root call of the timer callback
rootMinimax(g, player, depth) ==
    With(evaluateBoardOf(g), LAMBDA evaluate :
         minimax(evaluate, depth, -Infinity, Infinity, TRUE, player,
                 g.boards, g.mainBoard, g.nextBoardIndex))

\* makeAIMove with the timer callback: the move found is handed to
\* handleMove
makeAIMove(g, player, depth) ==
    IF g.gameOver \/ g.currentPlayer # player THEN g
    ELSE With(rootMinimax(g, player, depth), LAMBDA result :
              IF result.move # NoMove
              THEN handleMove(g, result.move[1], result.move[2]).game
              ELSE g)

----------------------------------------------------------------------------
(* minimax over arrays held by reference: what is copied, what is shared *)

\* a heap is a sequence of arrays, a reference is an index into it; a boards
\* array holds the references of its nine rows

\* a new array with the given entries
alloc(heap, array) ==
    [heap |-> Append(heap, array), ref |-> Len(heap) + 1]

\* [...array]: a new array with the entries of the old one
spread(heap, ref) == alloc(heap, heap[ref])

\* mutant: the rows are not copied, only the array that holds them
deepCopy_sharedRows(heap, boardsRef) == spread(heap, boardsRef)

\* JSON.parse(JSON.stringify(boards)): nine new rows and a new array that
\* holds them
deepCopy(heap, boardsRef) ==
    LET rows == [i \in 1..9 |-> heap[heap[boardsRef][i - 1]]]
        n == Len(heap)
    IN [heap |-> (heap \o rows) \o << [b \in Idx |-> n + 1 + b] >>,
        ref |-> n + 10]

\* array[i] = v
write(heap, ref, i, v) == [heap EXCEPT ![ref][i] = v]

\* the 9 x 9 cells reached from a boards array
boardsAt(heap, boardsRef) == [b \in Idx |-> heap[heap[boardsRef][b]]]

\* the component state g laid out as arrays: nine rows, boards, mainBoard
componentHeap(g) ==
    [heap |-> ([i \in 1..9 |-> g.boards[i - 1]]
               \o << [b \in Idx |-> b + 1] >>) \o << g.mainBoard >>,
     boards |-> 10,
     mainBoard |-> 11]

RECURSIVE minimaxRefs(_, _, _, _, _, _, _, _, _, _)

\* one pass of the body of either loop on the heap carried by loop; intact
\* records that the node's own tempBoards and tempMainBoard read the same
\* after the recursive call as before the pass; the arrays made during the
\* pass are unreachable once it ends and leave the heap
visit(evaluate, depth, isMaximizing, player, tempBoards, tempMainBoard, move, loop) ==
    LET mark == IF isMaximizing THEN player
                ELSE IF player = "X" THEN "O" ELSE "X"
        newBoards == deepCopy(loop.heap, tempBoards)
        row == newBoards.heap[newBoards.ref][move[1]]
        placed == write(newBoards.heap, row, move[2], mark)
        newMainBoard == spread(placed, tempMainBoard)
        boardWinner == checkBoardWinnerLocal(placed[row])
        marked == IF boardWinner # Null
                  THEN write(newMainBoard.heap, newMainBoard.ref, move[1], boardWinner)
                  ELSE newMainBoard.heap
        newNextBoardIndex == IF marked[newMainBoard.ref][move[2]] = Null
                             THEN move[2] ELSE -1
        evalResult == minimaxRefs(marked, evaluate, depth - 1, loop.alpha, loop.beta,
                                  ~isMaximizing, player, newBoards.ref,
                                  newMainBoard.ref, newNextBoardIndex)
        better == IF isMaximizing THEN evalResult.score > loop.eval
                  ELSE evalResult.score < loop.eval
        alpha1 == IF isMaximizing /\ evalResult.score > loop.alpha
                  THEN evalResult.score ELSE loop.alpha
        beta1 == IF ~isMaximizing /\ evalResult.score < loop.beta
                 THEN evalResult.score ELSE loop.beta
    IN [alpha    |-> alpha1,
        beta     |-> beta1,
        eval     |-> IF better THEN evalResult.score ELSE loop.eval,
        bestMove |-> IF better THEN move ELSE loop.bestMove,
        break    |-> beta1 <= alpha1,
        heap     |-> SubSeq(evalResult.heap, 1, Len(loop.heap)),
        intact   |-> /\ loop.intact
                     /\ evalResult.intact
                     /\ boardsAt(evalResult.heap, tempBoards)
                           = boardsAt(loop.heap, tempBoards)
                     /\ evalResult.heap[tempMainBoard] = loop.heap[tempMainBoard]]

\* for (const move of validMoves) on the heap, halved as in forMoves
RECURSIVE forMovesRefs(_, _, _, _, _, _, _, _, _, _)
forMovesRefs(evaluate, depth, isMaximizing, player, tempBoards, tempMainBoard, moves, lo, hi, loop) ==
    IF loop.break \/ lo > hi THEN loop
    ELSE IF lo = hi
         THEN visit(evaluate, depth, isMaximizing, player, tempBoards,
                    tempMainBoard, moves[lo], loop)
    ELSE LET mid == (lo + hi) \div 2
             left == forMovesRefs(evaluate, depth, isMaximizing, player, tempBoards,
                                  tempMainBoard, moves, lo, mid, loop)
         IN forMovesRefs(evaluate, depth, isMaximizing, player, tempBoards,
                         tempMainBoard, moves, mid + 1, hi, left)

\* minimax with currentBoards and currentMainBoard given as references; it
\* returns the heap it leaves behind
minimaxRefs(heap, evaluate, depth, alpha, beta, isMaximizing, player, currentBoards, currentMainBoard, currentNextBoardIndex) ==
    LET tempBoards == deepCopy(heap, currentBoards)
        tempMainBoard == spread(tempBoards.heap, currentMainBoard)
        own == tempMainBoard.heap
        base == baseCase(evaluate, depth, player, own[tempMainBoard.ref])
        moves == validMoves(boardsAt(own, tempBoards.ref), own[tempMainBoard.ref],
                            currentNextBoardIndex)
        loop == forMovesRefs(evaluate, depth, isMaximizing, player, tempBoards.ref,
                             tempMainBoard.ref, moves, 1, Len(moves),
                             [alpha    |-> alpha,
                              beta     |-> beta,
                              eval     |-> IF isMaximizing THEN -Infinity ELSE Infinity,
                              bestMove |-> NoMove,
                              break    |-> FALSE,
                              heap     |-> own,
                              intact   |-> TRUE])
    IN IF base.final
       THEN [score |-> base.score, move |-> NoMove, heap |-> own, intact |-> TRUE]
       ELSE IF Len(moves) = 0
       THEN [score |-> 0, move |-> NoMove, heap |-> own, intact |-> TRUE]
       ELSE [score |-> loop.eval, move |-> loop.bestMove, heap |-> loop.heap,
             intact |-> loop.intact]

\* makeAIMove: the root call, handed the component's own arrays
rootMinimaxRefs(g, player, depth) ==
    LET caller == componentHeap(g)
    IN minimaxRefs(caller.heap, evaluateBoardOf(g), depth, -Infinity, Infinity,
                   TRUE, player, caller.boards, caller.mainBoard, g.nextBoardIndex)

----------------------------------------------------------------------------
(* AI mode: the human clicks, the AI answers *)

\* the deepest search the slider is set to
MaxDepth == 2

\* cells the human clicks, in order, in three recorded games against the AI
HumanGameA ==
    << <<3, 3>>, <<0, 3>>, <<1, 3>>, <<2, 5>>, <<0, 1>>, <<0, 5>>, <<1, 5>>,
       <<2, 8>>, <<0, 0>>, <<2, 3>>, <<4, 3>>, <<6, 8>>, <<1, 8>>, <<2, 1>>,
       <<1, 6>>, <<4, 1>>, <<2, 6>>, <<4, 0>> >>

HumanGameB ==
    << <<0, 4>>, <<0, 8>>, <<0, 0>>, <<6, 6>>, <<6, 7>>, <<6, 8>>, <<1, 2>>,
       <<1, 6>>, <<1, 4>>, <<4, 6>>, <<4, 7>>, <<4, 8>>, <<2, 3>>, <<2, 2>>,
       <<2, 8>>, <<5, 2>>, <<2, 7>> >>

HumanGameC ==
    << <<0, 0>>, <<1, 4>>, <<0, 8>>, <<0, 4>>, <<1, 1>>, <<1, 7>>, <<4, 2>>,
       <<4, 4>>, <<3, 2>>, <<4, 6>>, <<6, 6>>, <<6, 8>>, <<6, 7>>, <<3, 0>>,
       <<3, 1>> >>

HumanGames == {HumanGameA, HumanGameB, HumanGameC}

\* the cells the human clicks next: the next click of a recorded game whose
\* earlier clicks are the human's marks on the board
humanClicks(g, human) ==
    LET n == Cardinality({bc \in Idx \X Idx : g.boards[bc[1]][bc[2]] = human})
        played(h) == \A k \in 1..n : g.boards[h[k][1]][h[k][2]] = human
    IN {h[n + 1] : h \in {h \in HumanGames : Len(h) > n /\ played(h)}}

\* the effect "AI makes a move when it's its turn" is armed
aiToMove ==
    gameMode = "ai" /\ currentPlayer = aiPlayer /\ ~gameOver

\* AI mode as the component first renders it, the slider set within the bound
InitAI ==
    /\ now = 0
    /\ accepted = 0
    /\ last = NoRequest
    /\ NoTraffic
    /\ NoEvaluation
    /\ gameRooms = NoRooms
    /\ gameMode = "ai"
    /\ gameIs(initialGame)
    /\ aiPlayer = "O"
    /\ aiDepth \in 1..MaxDepth
    /\ NotThinking

\* the difficulty slider: setAiDepth
SetDepth(d) ==
    /\ gameMode = "ai"
    /\ aiDepth' = d
    /\ UNCHANGED <<roomVars, accepted, last, gameMode, localVars, netVars,
                   aiPlayer, aiThinking, deferred, evalVars>>

\* toggleAIPlayer: the AI takes the other mark and the game is reset
ToggleAIPlayer ==
    /\ gameMode = "ai"
    /\ aiPlayer' = IF aiPlayer = "X" THEN "O" ELSE "X"
    /\ setGame(resetGame(game))
    /\ last' = [op |-> "resetGame", playerId |-> ""]
    /\ UNCHANGED <<roomVars, accepted, gameMode, netVars, aiDepth, aiThinking,
                   deferred, evalVars>>

\* a click on a cell; cells are disabled while it is the AI's turn and while
\* the AI is thinking
HumanMove(b, c) ==
    /\ gameMode = "ai"
    /\ currentPlayer # aiPlayer
    /\ ~aiThinking
    /\ LET res == handleMove(game, b, c)
       IN /\ setGame(res.game)
          /\ last' = IF res.answer = "applied"
                     THEN [op |-> "handleMove", playerId |-> currentPlayer]
                     ELSE last
    /\ UNCHANGED <<roomVars, accepted, gameMode, netVars, aiVars, evalVars>>

\* the timers of the AI effect and of makeAIMove have fired
AIMove ==
    /\ aiToMove
    /\ \E g \in {makeAIMove(game, aiPlayer, aiDepth)} : setGame(g)
    /\ last' = [op |-> "makeAIMove", playerId |-> aiPlayer]
    /\ UNCHANGED <<roomVars, accepted, gameMode, netVars, aiVars, evalVars>>

\* the reset button in AI mode
ResetAI ==
    /\ gameMode = "ai"
    /\ setGame(resetGame(game))
    /\ last' = [op |-> "resetGame", playerId |-> ""]
    /\ UNCHANGED <<roomVars, accepted, gameMode, netVars, aiVars, evalVars>>

NextAI ==
    \/ \E d \in 1..MaxDepth : SetDepth(d)
    \/ ToggleAIPlayer
    \/ \E m \in humanClicks(game, IF aiPlayer = "X" THEN "O" ELSE "X") :
          HumanMove(m[1], m[2])
    \/ AIMove
    \/ ResetAI

SpecAI == InitAI /\ [][NextAI]_vars

----------------------------------------------------------------------------
(* AI mode with the timer of makeAIMove: what the callback captured *)

\* the setters handleMove of the render g calls, applied to the state cur the
\* component has when the handler runs: boards, mainBoard, currentPlayer,
\* gameOver and nextBoardIndex are read from the render that created the
\* handler; a field no setter is called for keeps the value it has in cur
handleMoveOf(g, cur, boardIndex, cellIndex) ==
    IF moveIgnored(g, boardIndex, cellIndex) THEN cur
    ELSE With(localMove(g, boardIndex, cellIndex), LAMBDA new :
              LET boardWinner == checkBoardWinnerLocal(new.boards[boardIndex])
                  c1 == [cur EXCEPT !.boards = new.boards, !.lastMove = new.lastMove]
                  c2 == IF boardWinner # Null
                        THEN [c1 EXCEPT !.mainBoard = new.mainBoard] ELSE c1
              IN drawEffect(IF new.gameOver
                            THEN [c2 EXCEPT !.winner = new.winner, !.gameOver = TRUE]
                            ELSE [c2 EXCEPT !.nextBoardIndex = new.nextBoardIndex,
                                            !.currentPlayer = new.currentPlayer]))

\* the callback makeAIMove hands to setTimeout: it holds boards, mainBoard,
\* nextBoardIndex, handleMove, aiPlayer and aiDepth of the render that
\* called makeAIMove
callback(g, player, depth) ==
    [scheduled |-> TRUE, game |-> g, aiPlayer |-> player, aiDepth |-> depth]

\* the callback runs: minimax on the captured position, the captured
\* handleMove on the move found
runCallback(cb, cur) ==
    With(rootMinimax(cb.game, cb.aiPlayer, cb.aiDepth), LAMBDA result :
         IF result.move # NoMove
         THEN handleMoveOf(cb.game, cur, result.move[1], result.move[2])
         ELSE cur)

\* the timer of the AI effect fires: makeAIMove sets aiThinking and
\* schedules its callback
MakeAIMove ==
    /\ aiToMove
    /\ ~aiThinking
    /\ aiThinking' = TRUE
    /\ deferred' = callback(game, aiPlayer, aiDepth)
    /\ last' = [op |-> "makeAIMove", playerId |-> aiPlayer]
    /\ UNCHANGED <<roomVars, accepted, gameMode, localVars, netVars, aiPlayer,
                   aiDepth, evalVars>>

\* the timer of makeAIMove fires
TimerCallback ==
    /\ deferred.scheduled
    /\ \E g \in {runCallback(deferred, game)} : setGame(g)
    /\ aiThinking' = FALSE
    /\ deferred' = NoCallback
    /\ last' = [op |-> "callback", playerId |-> deferred.aiPlayer]
    /\ UNCHANGED <<roomVars, accepted, gameMode, netVars, aiPlayer, aiDepth, evalVars>>

NextTimers ==
    \/ \E m \in humanClicks(game, IF aiPlayer = "X" THEN "O" ELSE "X") :
          HumanMove(m[1], m[2])
    \/ MakeAIMove
    \/ TimerCallback
    \/ ResetAI

SpecTimers == InitAI /\ [][NextTimers]_vars

----------------------------------------------------------------------------
(* The three copies of the board evaluator applied to one board *)

\* WINNING_COMBINATIONS of the store module
WINNING_COMBINATIONS_store ==
    << <<0, 1, 2>>, <<3, 4, 5>>, <<6, 7, 8>>,
       <<0, 3, 6>>, <<1, 4, 7>>, <<2, 5, 8>>,
       <<0, 4, 8>>, <<2, 4, 6>> >>

\* the store's copy of the evaluator
checkBoardWinnerStore(board) ==
    LET hit(k) == LET a == WINNING_COMBINATIONS_store[k][1]
                      b == WINNING_COMBINATIONS_store[k][2]
                      c == WINNING_COMBINATIONS_store[k][3]
                  IN board[a] # Null /\ board[a] = board[b] /\ board[a] = board[c]
        hits == {k \in 1..8 : hit(k)}
    IN IF hits # {}
       THEN LET first == CHOOSE k \in hits : \A j \in hits : k <= j
            IN board[WINNING_COMBINATIONS_store[first][1]]
       ELSE IF everyNonNull(board) THEN "draw" ELSE Null

\* every 9-slot board over null, X and O
InitEval ==
    /\ now = 0
    /\ accepted = 0
    /\ last = NoRequest
    /\ NoTraffic
    /\ DefaultAI
    /\ gameMode = "local"
    /\ gameRooms = NoRooms
    /\ gameIs(initialGame)
    /\ evalBoard \in [Idx -> {Null, "X", "O"}]
    /\ evalAnswer = NotEvaluated

\* the board is handed to each copy
Evaluate ==
    /\ evalAnswer' = [route     |-> checkBoardWinner(evalBoard),
                      component |-> checkBoardWinnerLocal(evalBoard),
                      store     |-> checkBoardWinnerStore(evalBoard)]
    /\ UNCHANGED <<roomVars, accepted, last, gameMode, localVars, netVars,
                   aiVars, evalBoard>>

NextEval == Evaluate

SpecEval == InitEval /\ [][NextEval]_vars

\* the ids Math.random().toString(36).substring(2, 8).toUpperCase() yields
RoomIds == {"R1", "R2"}

\* gameRooms[roomId] = {...}: the record is assigned whether or not the
\* store already holds a room under roomId
createPOST(rooms, roomId, playerId, t) ==
    [r \in DOMAIN rooms \cup {roomId} |->
        IF r = roomId THEN createRoom(roomId, playerId, t) ELSE rooms[r]]

\* the store of a freshly started server
InitRooms ==
    /\ now = 0
    /\ accepted = 0
    /\ last = NoRequest
    /\ NoTraffic
    /\ DefaultAI
    /\ NoEvaluation
    /\ gameMode = "multiplayer"
    /\ gameRooms = NoRooms
    /\ gameIs(initialGame)

\* POST /api/game: Math.random() and Date.now() are read
Create(roomId, p) ==
    /\ \E t \in clockReadings :
          /\ gameRooms' = createPOST(gameRooms, roomId, p, t)
          /\ now' = t
    /\ last' = [op |-> "create", playerId |-> p]
    /\ UNCHANGED <<accepted, gameMode, aiVars, evalVars, localVars, netVars>>

NextRooms ==
    \/ \E r \in RoomIds, p \in Participants : Create(r, p)
    \/ \E r \in RoomIds, p \in Participants : Join(r, p)
    \/ \E r \in RoomIds, p \in Participants, m \in Clicks : MakeMove(r, p, m[1], m[2])
    \/ \E r \in RoomIds, p \in Participants : Reset(r, p)

SpecRooms == InitRooms /\ [][NextRooms]_vars

----------------------------------------------------------------------------
(* Whole games in a room: recorded games played move by move *)

\* O wins sub-boards 1, 4 and 7; sub-board 3 ends drawn at the 36th move
\* (3,1), and the 46th move (1,0) wins the game
GameO ==
    << <<5, 5>>, <<5, 3>>, <<3, 7>>, <<7, 5>>, <<5, 4>>, <<4, 0>>, <<0, 6>>,
       <<6, 3>>, <<3, 5>>, <<5, 6>>, <<6, 4>>, <<4, 8>>, <<8, 6>>, <<6, 5>>,
       <<5, 2>>, <<2, 4>>, <<4, 3>>, <<3, 2>>, <<2, 3>>, <<3, 8>>, <<8, 7>>,
       <<7, 3>>, <<3, 0>>, <<0, 0>>, <<0, 8>>, <<8, 4>>, <<4, 2>>, <<2, 0>>,
       <<0, 4>>, <<4, 4>>, <<3, 4>>, <<3, 3>>, <<3, 6>>, <<6, 0>>, <<0, 3>>,
       <<3, 1>>, <<1, 4>>, <<1, 1>>, <<1, 7>>, <<7, 4>>, <<1, 3>>, <<0, 5>>,
       <<5, 1>>, <<1, 2>>, <<2, 1>>, <<1, 0>> >>

\* every sub-board is won, by X or by O, and no main-board line is complete:
\* the 46th move (5,0) resolves the last sub-board and the game is drawn
GameFull ==
    << <<1, 8>>, <<8, 2>>, <<2, 6>>, <<6, 2>>, <<2, 7>>, <<7, 6>>, <<6, 5>>,
       <<5, 2>>, <<2, 8>>, <<8, 3>>, <<3, 7>>, <<7, 8>>, <<8, 0>>, <<0, 4>>,
       <<4, 1>>, <<1, 6>>, <<6, 7>>, <<7, 3>>, <<3, 4>>, <<4, 6>>, <<6, 1>>,
       <<1, 3>>, <<3, 1>>, <<1, 0>>, <<0, 7>>, <<7, 1>>, <<4, 0>>, <<0, 3>>,
       <<4, 2>>, <<6, 6>>, <<6, 0>>, <<0, 5>>, <<5, 5>>, <<5, 4>>, <<5, 6>>,
       <<6, 8>>, <<8, 4>>, <<5, 8>>, <<8, 7>>, <<7, 7>>, <<8, 6>>, <<6, 4>>,
       <<8, 1>>, <<5, 1>>, <<5, 3>>, <<5, 0>> >>

\* the rooms the server holds
Rooms == DOMAIN gameRooms

Games == {GameX, GameDraw, GameO, GameFull}

\* how far outside 0..8 a requested index may lie
Outside == 1

\* the integers a move request may carry as boardIndex and cellIndex
Requested == (0 - Outside)..(8 + Outside)

\* the cells marked by the first n moves of a recorded game, X moving first
recorded(g, n) ==
    [b \in Idx |-> [c \in Idx |->
        IF \E i \in 1..n : g[i] = <<b, c>>
        THEN IF (CHOOSE i \in 1..n : g[i] = <<b, c>>) % 2 = 1 THEN "X" ELSE "O"
        ELSE Null]]

\* the moves that continue a recorded game from the position of the room
nextMoves(room) ==
    UNION {{g[n + 1] : g \in {h \in Games : n < Len(h) /\ recorded(h, n) = room.boards}} :
              n \in {marks(room.boards)}}

\* the second player has joined the room and the game is not over
inPlay(room) == Len(room.players) = 2 /\ ~room.gameOver

\* multiplayer: a room created by the host, the second player has yet to
\* join; local mode: the component's own game, not begun
InitGames ==
    /\ now = 0
    /\ accepted = 0
    /\ last = NoRequest
    /\ NoTraffic
    /\ DefaultAI
    /\ NoEvaluation
    /\ \/ /\ gameMode = "multiplayer"
          /\ gameRooms = [r \in {RoomId} |-> createRoom(RoomId, Host, 0)]
       \/ /\ gameMode = "local"
          /\ gameRooms = NoRooms
    /\ gameIs(initialGame)

\* POST {action: "move"} from any participant with any two integers; the
\* moves that are accepted follow a recorded game, and Date.now() is read
\* when the move is accepted.  Here `accepted` counts the moves accepted
\* since the last reset
Request(r, p, b, c) ==
    /\ r \in DOMAIN gameRooms
    /\ \E t \in clockReadings : \E res \in {handleMakeMove(gameRooms[r], p, b, c, t)} :
          /\ IF res.answer = "success"
             THEN <<b, c>> \in nextMoves(gameRooms[r])
             ELSE t = now
          /\ accepted' = IF res.answer = "success" THEN accepted + 1 ELSE accepted
          /\ roomStep(r, "move", p, res)
    /\ UNCHANGED <<gameMode, aiVars, evalVars, localVars, netVars>>

\* POST {action: "reset"}; an accepted reset starts the count of moves again
NewGame(r, p) ==
    /\ r \in DOMAIN gameRooms
    /\ \E t \in IF gameRooms[r].players[1] = p THEN clockReadings ELSE {now} :
          roomStep(r, "reset", p, handleResetGame(gameRooms[r], p, t))
    /\ accepted' = IF gameRooms[r].players[1] = p THEN 0 ELSE accepted
    /\ UNCHANGED <<gameMode, aiVars, evalVars, localVars, netVars>>

\* a click on a cell in local mode; the clicks that are applied follow a
\* recorded game
Click(b, c) ==
    /\ gameMode = "local"
    /\ \E res \in {handleMove(game, b, c)} :
          /\ res.answer = "applied" => <<b, c>> \in nextMoves(game)
          /\ accepted' = IF res.answer = "applied" THEN accepted + 1 ELSE accepted
          /\ setGame(res.game)
          /\ last' = IF res.answer = "applied"
                     THEN [op |-> "handleMove", playerId |-> currentPlayer]
                     ELSE last
    /\ UNCHANGED <<gameMode, aiVars, evalVars, roomVars, netVars>>

\* the reset button in local mode starts the count of moves again
StartOver ==
    /\ gameMode = "local"
    /\ setGame(resetGame(game))
    /\ last' = [op |-> "resetGame", playerId |-> ""]
    /\ accepted' = 0
    /\ UNCHANGED <<gameMode, aiVars, evalVars, roomVars, netVars>>

\* the participant to move submits the next move of the game being played
Played == \E r \in Rooms : inPlay(gameRooms[r]) /\ \E bc \in nextMoves(gameRooms[r]) : Request(r, mover(gameRooms[r]), bc[1], bc[2])

NextGames ==
    \/ \E r \in {RoomId}, p \in Participants : Join(r, p)
    \/ \E r \in {RoomId}, p \in Participants, b \in Requested, c \in Requested : Request(r, p, b, c)
    \/ \E r \in {RoomId}, p \in Participants : NewGame(r, p)
    \/ \E b \in Idx, c \in Idx : Click(b, c)
    \/ StartOver

SpecGames == InitGames /\ [][NextGames]_vars

\* the participants keep submitting the moves of the game they are playing:
\* a move that can be accepted is accepted in the end
LiveGames == SpecGames /\ WF_vars(Played)

moveErrors ==
    {"Not your turn", "Game is over", "Invalid board", "Board already won",
     "Cell already filled"}

\* the answer of the move handler to a request on the room as it is now
answerNow(r, p, b, c) == handleMakeMove(gameRooms[r], p, b, c, now).answer

\* the conditions of C1, read off the room record
C1_Legal(room, p, b, c) ==
    /\ \/ (Len(room.players) >= 1 /\ p = room.players[1] /\ room.currentPlayer = "X")
       \/ (Len(room.players) >= 2 /\ p = room.players[2] /\ room.currentPlayer = "O")
    /\ room.gameOver = FALSE
    /\ \/ room.nextBoardIndex = -1
       \/ room.nextBoardIndex = b
       \/ room.mainBoard[room.nextBoardIndex] # Null
    /\ room.mainBoard[b] = Null
    /\ room.boards[b][c] = Null

\* C1: in every reachable room, a move request (p, b, c) is accepted if and
\* only if p is the participant to move, the game is not over, the required
\* board (if any, and unresolved) is b, sub-board b is unresolved and the cell
\* is empty; when board k is required and unresolved every accepted move is
\* in board k.
C1_AcceptedIffLegal ==
    \A r \in Rooms : \A p \in Participants, b \in Idx, c \in Idx :
        LET ok == answerNow(r, p, b, c) = "success"
        IN /\ ok <=> C1_Legal(gameRooms[r], p, b, c)
           /\ (/\ ok
               /\ gameRooms[r].nextBoardIndex # -1
               /\ gameRooms[r].mainBoard[gameRooms[r].nextBoardIndex] = Null)
                 => b = gameRooms[r].nextBoardIndex

\* after an accepted move the room requires an unresolved board: requests to
\* it are accepted and requests to other boards are answered "Invalid board"
C1_Witness ==
    \E r \in Rooms :
        /\ last.op = "move"
        /\ gameRooms[r].nextBoardIndex # -1
        /\ \E p \in Participants, b \in Idx, c \in Idx :
              answerNow(r, p, b, c) = "success"
        /\ \E p \in Participants, b \in Idx, c \in Idx :
              answerNow(r, p, b, c) = "Invalid board"

\* C2: a move request answered with an error returns the room record it was
\* given, every field of it, whatever the clock reads.
C2_RejectedMoveKeepsRoom ==
    \A r \in Rooms : \A p \in Participants, b \in Idx, c \in Idx :
        \A t \in clockReadings :
            LET res == handleMakeMove(gameRooms[r], p, b, c, t)
            IN res.answer # "success" =>
                  /\ res.answer \in moveErrors
                  /\ res.room = gameRooms[r]

\* a room in play in which requests are rejected for each of the reasons
\* not-your-turn, board-already-won and cell-filled
C2_Witness ==
    \E r \in Rooms :
        /\ last.op = "move"
        /\ \A e \in {"Not your turn", "Board already won", "Cell already filled"} :
              \E p \in Participants, b \in Idx, c \in Idx :
                  answerNow(r, p, b, c) = e

\* C3: in every reachable room, mainBoard[i] is checkBoardWinner(boards[i])
\* for every sub-board i (null exactly when the evaluator says null).
C3_MainBoardIsEvaluation ==
    \A r \in Rooms : \A i \in Idx :
        gameRooms[r].mainBoard[i] = checkBoardWinner(gameRooms[r].boards[i])

\* the latest accepted move filled the last cell of its sub-board, which is
\* now recorded as drawn
C3_Witness ==
    \E r \in Rooms :
        /\ last.op = "move"
        /\ gameRooms[r].mainBoard[gameRooms[r].lastMove[1]] = "draw"

\* C4: in every reachable state, of a room and of the local game, gameOver
\* is true if and only if winner is non-null.
C4_GameOverIffWinner ==
    /\ \A r \in Rooms : gameRooms[r].gameOver <=> (gameRooms[r].winner # Null)
    /\ gameOver <=> (winner # Null)

\* a local game ended by a move, with X the winner
C4_Witness ==
    /\ gameMode = "local"
    /\ last.op = "handleMove"
    /\ gameOver
    /\ winner = "X"

\* a main-board line holding three X or three O
markedLine(mb) ==
    \E k \in 1..8 : \E m \in Marks :
        \A j \in 1..3 : mb[winningCombinations[k][j]] = m

\* the game state (a room record or the local game) is drawn exactly when
\* the main board is full and no line holds three X or three O
drawnExactlyWhenFull(g) ==
    (g.gameOver /\ g.winner = "draw")
        <=> (everyNonNull(g.mainBoard) /\ ~markedLine(g.mainBoard))

\* C5: a game, room or local, is over with winner draw exactly when all nine
\* mainBoard entries are non-null and no main-board line holds three X or
\* three O (so three drawn sub-boards in a line do not end the game while a
\* sub-board is unresolved).  The code ends the game on such a line.
C5_DrawOnlyWhenFull ==
    /\ \A r \in Rooms : drawnExactlyWhenFull(gameRooms[r])
    /\ drawnExactlyWhenFull(game)

\* C6: in every reachable room nextBoardIndex is -1 or indexes an unresolved
\* sub-board; in the state left by an accepted move at cellIndex that did not
\* end the game it is cellIndex when mainBoard[cellIndex] is null in that
\* state, and -1 otherwise.
C6_NextBoardUnresolved ==
    \A r \in Rooms :
        LET room == gameRooms[r]
        IN /\ room.nextBoardIndex \in -1..8
           /\ room.nextBoardIndex # -1 => room.mainBoard[room.nextBoardIndex] = Null
           /\ (last.op = "move" /\ ~room.gameOver) =>
                 room.nextBoardIndex =
                     IF room.mainBoard[room.lastMove[2]] = Null
                     THEN room.lastMove[2] ELSE -1

\* the latest accepted move was played at cell b of sub-board b and resolved
\* it without ending the game: the next board is free
C6_Witness ==
    \E r \in Rooms :
        LET room == gameRooms[r]
        IN /\ last.op = "move"
           /\ ~room.gameOver
           /\ room.lastMove[1] = room.lastMove[2]
           /\ room.mainBoard[room.lastMove[1]] # Null
           /\ room.nextBoardIndex = -1

\* C7: in the local game nextBoardIndex is -1 or indexes an unresolved
\* sub-board in every reachable state.  handleMove reads the mainBoard of
\* before the move, so a move at cell b of sub-board b that resolves it
\* leaves nextBoardIndex = b.
C7_LocalNextBoardUnresolved ==
    gameMode = "local" =>
        (nextBoardIndex = -1 \/ mainBoard[nextBoardIndex] = Null)

\* a step in which the room r accepts a move
acceptedMoveStep(r) ==
    /\ accepted' = accepted + 1
    /\ r \in DOMAIN gameRooms'
    /\ gameRooms'[r] # gameRooms[r]

\* C8: an accepted move that ends the game leaves currentPlayer and
\* nextBoardIndex of the room as they were.  The code switches the player
\* and sets the next board on every accepted move.
C8_EndingMoveFreezesTurn ==
    [][\A r \in Rooms :
          (acceptedMoveStep(r) /\ gameRooms'[r].gameOver) =>
              /\ gameRooms'[r].currentPlayer = gameRooms[r].currentPlayer
              /\ gameRooms'[r].nextBoardIndex = gameRooms[r].nextBoardIndex]_vars

\* a step in which the host's reset of room r is accepted
acceptedResetStep(r) ==
    /\ last'.op = "reset"
    /\ last'.playerId = gameRooms[r].players[1]
    /\ accepted' = accepted
    /\ gameRooms'[r].mainBoard = EmptyBoard
    /\ gameRooms'[r].boards = EmptyBoards

\* every move request into a resolved sub-board of the room is rejected
resolvedBoardsClosed(room) ==
    \A i \in Idx : room.mainBoard[i] # Null =>
        \A p \in Participants, c \in Idx :
            handleMakeMove(room, p, i, c, now).answer \in moveErrors

\* C9: a non-null mainBoard[i] keeps its value in every step (join, move,
\* accepted or rejected) that is not an accepted host reset, and every move
\* request into a resolved sub-board is rejected, before and after every
\* step that changes the room.
C9_ResolvedBoardFrozen ==
    [][\A r \in Rooms :
          gameRooms'[r] # gameRooms[r] =>
              /\ \A i \in Idx :
                    gameRooms[r].mainBoard[i] # Null =>
                        \/ gameRooms'[r].mainBoard[i] = gameRooms[r].mainBoard[i]
                        \/ acceptedResetStep(r)
              /\ resolvedBoardsClosed(gameRooms[r])
              /\ resolvedBoardsClosed(gameRooms'[r])]_vars

\* a sub-board other than the one of the latest accepted move is resolved,
\* and it has an empty cell, which no participant may fill
C9_Witness ==
    \E r \in Rooms : \E i \in Idx :
        /\ last.op = "move"
        /\ gameRooms[r].lastMove[1] # i
        /\ gameRooms[r].mainBoard[i] # Null
        /\ \E c \in Idx : gameRooms[r].boards[i][c] = Null
        /\ ~gameRooms[r].gameOver

\* the cells whose value differs between two boards arrays
changedCells(old, new) ==
    {bc \in Idx \X Idx : old[bc[1]][bc[2]] # new[bc[1]][bc[2]]}

\* C10: a cell holding X or O changes only in an accepted host reset, which
\* clears it; an accepted move changes exactly one cell, the one it targets,
\* from null to the symbol of the participant who moved (players[0] is X,
\* players[1] is O); a join, the step that changes players or spectators,
\* changes no cell.
C10_CellsFrozen ==
    [][\A r \in Rooms :
          LET old == gameRooms[r].boards
              new == gameRooms'[r].boards
              target == gameRooms'[r].lastMove
          IN /\ new # old =>
                   \A bc \in changedCells(old, new) :
                       old[bc[1]][bc[2]] # Null => acceptedResetStep(r)
             /\ acceptedMoveStep(r) =>
                   /\ changedCells(old, new) = {target}
                   /\ old[target[1]][target[2]] = Null
                   /\ new[target[1]][target[2]] = gameRooms[r].currentPlayer
                   /\ new[target[1]][target[2]] =
                         IF last'.playerId = gameRooms[r].players[1]
                         THEN "X" ELSE "O"
             /\ (\/ gameRooms'[r].players # gameRooms[r].players
                 \/ gameRooms'[r].spectators # gameRooms[r].spectators) => new = old]_vars

\* a move has been accepted in a room that held marks already, and they are
\* still there
C10_Witness ==
    \E r \in Rooms :
        /\ last.op = "move"
        /\ accepted >= 1
        /\ marks(gameRooms[r].boards) >= 2

\* the fields of a game state that the two state machines share
gameFields(g) ==
    [boards |-> g.boards,
     mainBoard |-> g.mainBoard,
     currentPlayer |-> g.currentPlayer,
     nextBoardIndex |-> g.nextBoardIndex,
     gameOver |-> g.gameOver,
     winner |-> g.winner]

\* C11: given the same move attempts, the local game and the room hold equal
\* boards, mainBoard, currentPlayer, nextBoardIndex, gameOver and winner after
\* every step, and accept the same attempts.  The two handlers set
\* nextBoardIndex and currentPlayer differently.
C11_LocalMatchesRoom ==
    \A r \in Rooms :
        /\ gameFields(game) = gameFields(gameRooms[r])
        /\ \A b \in Idx, c \in Idx :
              (handleMove(game, b, c).answer = "applied")
                  <=> (answerNow(r, mover(gameRooms[r]), b, c) = "success")

\* the number of cells of the room that hold the mark m
markCount(room, m) ==
    Cardinality({bc \in Idx \X Idx : room.boards[bc[1]][bc[2]] = m})

\* X has played as often as O when X is to move, and once more when O is
turnsAlternate(room) ==
    markCount(room, "X") - markCount(room, "O")
        = IF room.currentPlayer = "X" THEN 0 ELSE 1

C13_ClientRoomNeverOlder ==
    [][(clientRoom.id # Null /\ clientRoom'.id # Null) =>
          clientRoom'.lastUpdateTime >= clientRoom.lastUpdateTime]_vars

\* the record of the room with its spectators left out
withoutSpectators(room) == [room EXCEPT !.spectators = << >>]

\* C14: lastUpdateTime of a room never decreases, and every accepted
\* mutation (the second player's join, a move, a reset) makes it strictly
\* greater than before.  The handlers store the clock reading as it is, so
\* a mutation handled at the reading of the previous one leaves it equal.
C14_UpdateTimeIncreases ==
    [][\A r \in Rooms :
          gameRooms'[r] # gameRooms[r] =>
              /\ gameRooms'[r].lastUpdateTime >= gameRooms[r].lastUpdateTime
              /\ withoutSpectators(gameRooms'[r]) # withoutSpectators(gameRooms[r])
                    => gameRooms'[r].lastUpdateTime > gameRooms[r].lastUpdateTime]_vars

\* C15: every accepted request that changes the room record (second player
\* joining, new spectator joining, move, reset) sets lastUpdateTime to the
\* clock reading t at which it is handled.  The join of a new spectator
\* changes spectators and leaves lastUpdateTime as it was.
C15_MutationStampsTime ==
    \A r \in Rooms : \A p \in Participants : \A t \in clockReadings :
        /\ LET res == handleJoinRoom(gameRooms[r], p, t)
           IN res.room # gameRooms[r] => res.room.lastUpdateTime = t
        /\ LET res == handleResetGame(gameRooms[r], p, t)
           IN res.answer = "success" => res.room.lastUpdateTime = t
        /\ \A bc \in Clicks :
              LET res == handleMakeMove(gameRooms[r], p, bc[1], bc[2], t)
              IN res.answer = "success" => res.room.lastUpdateTime = t

\* C16: in a room created by the host, a join by a participant who is not in
\* players is answered O and appends them to players while players has one
\* entry, and is answered spectator, with isHost false and players
\* unchanged, once players has two entries.
C16_JoinAssignsSymbols ==
    \A r \in Rooms : \A p \in Participants : \A t \in clockReadings :
        LET room == gameRooms[r]
            res == handleJoinRoom(room, p, t)
        IN /\ room.players[1] = Host
           /\ (~includes(room.players, p) /\ Len(room.players) = 1) =>
                 /\ res.answer = "O"
                 /\ res.isHost = FALSE
                 /\ res.room.players = Append(room.players, p)
           /\ (~includes(room.players, p) /\ Len(room.players) = 2) =>
                 /\ res.answer = "spectator"
                 /\ res.isHost = FALSE
                 /\ res.room.players = room.players

\* C joined the host's room second and plays O; B joined the full room and
\* is a spectator
C16_Witness ==
    \E r \in Rooms :
        /\ gameRooms[r].players = <<Host, "C">>
        /\ gameRooms[r].spectators = <<"B">>

\* C17: a join by a participant already in players is answered their symbol
\* (X for players[0], O for players[1]) and returns the room record
\* unchanged; a join by a participant already in spectators is answered
\* spectator and returns the record unchanged, and spectators never holds
\* an id twice.
C17_JoinIdempotent ==
    \A r \in Rooms :
        LET room == gameRooms[r]
        IN /\ \A p \in Participants : \A t \in clockReadings :
                 LET res == handleJoinRoom(room, p, t)
                 IN /\ includes(room.players, p) =>
                          /\ res.answer = IF room.players[1] = p THEN "X" ELSE "O"
                          /\ res.room = room
                    /\ (includes(room.spectators, p) /\ ~includes(room.players, p)) =>
                          /\ res.answer = "spectator"
                          /\ res.room = room
           /\ \A i \in 1..Len(room.spectators), j \in 1..Len(room.spectators) :
                 room.spectators[i] = room.spectators[j] => i = j

\* a room with two players and a spectator, at a clock reading later than
\* its lastUpdateTime: each of the three may join again
C17_Witness ==
    \E r \in Rooms :
        /\ Len(gameRooms[r].players) = 2
        /\ Len(gameRooms[r].spectators) = 1
        /\ \E t \in clockReadings : t > gameRooms[r].lastUpdateTime

\* C18: a participant in spectators stays in spectators and out of players
\* through every step, and every move request by them is answered "Not your
\* turn", before and after every step that changes the room.
C18_SpectatorForever ==
    [][\A r \in Rooms :
          gameRooms'[r] # gameRooms[r] =>
              \A p \in Participants :
                  includes(gameRooms[r].spectators, p) =>
                      /\ includes(gameRooms'[r].spectators, p)
                      /\ ~includes(gameRooms[r].players, p)
                      /\ ~includes(gameRooms'[r].players, p)
                      /\ \A b \in Idx, c \in Idx :
                            /\ handleMakeMove(gameRooms[r], p, b, c, now).answer
                                  = "Not your turn"
                            /\ handleMakeMove(gameRooms'[r], p, b, c, now').answer
                                  = "Not your turn"]_vars

\* a move has been accepted in a room that has a spectator, and the game
\* goes on with free choice of the board
C18_Witness ==
    \E r \in Rooms :
        /\ last.op = "move"
        /\ gameRooms[r].spectators # << >>
        /\ ~gameRooms[r].gameOver
        /\ gameRooms[r].nextBoardIndex = -1

\* players holds one or two distinct ids, the creator first, and none of
\* them is a spectator
playersWellFormed(room) ==
    /\ Len(room.players) \in {1, 2}
    /\ room.players[1] = Host
    /\ Len(room.players) = 2 => room.players[2] # room.players[1]
    /\ \A p \in Participants :
          ~(includes(room.players, p) /\ includes(room.spectators, p))

\* C19: in every reachable room players holds one or two distinct ids with
\* the creator at index 0, no id is in both players and spectators, and
\* every step that changes the room keeps the entries of players in place
\* (players only grows at its end).
C19_PlayersStable ==
    [][\A r \in Rooms :
          gameRooms'[r] # gameRooms[r] =>
              /\ playersWellFormed(gameRooms[r])
              /\ playersWellFormed(gameRooms'[r])
              /\ Len(gameRooms'[r].players) >= Len(gameRooms[r].players)
              /\ SubSeq(gameRooms'[r].players, 1, Len(gameRooms[r].players))
                    = gameRooms[r].players]_vars

\* the host has reset a room that has two players and a spectator
C19_Witness ==
    \E r \in Rooms :
        /\ last.op = "reset"
        /\ Len(gameRooms[r].players) = 2
        /\ gameRooms[r].spectators # << >>

\* C20: a reset request by a participant other than players[0] is answered
\* with the host-only error and returns the room record unchanged, whatever
\* the clock reads.
C20_NonHostResetRejected ==
    \A r \in Rooms : \A p \in Participants : \A t \in clockReadings :
        LET res == handleResetGame(gameRooms[r], p, t)
        IN p # gameRooms[r].players[1] =>
              /\ res.answer = "Only host can reset the game"
              /\ res.room = gameRooms[r]

\* a game in play with a second player and a spectator, at a clock reading
\* later than its lastUpdateTime
C20_Witness ==
    \E r \in Rooms :
        /\ last.op = "move"
        /\ Len(gameRooms[r].players) = 2
        /\ gameRooms[r].spectators # << >>
        /\ \E t \in clockReadings : t > gameRooms[r].lastUpdateTime

\* C21: a reset by the host is accepted from every reachable room state and
\* yields 81 empty cells, nine empty mainBoard entries, currentPlayer X,
\* nextBoardIndex -1, gameOver false, winner null and lastMove null, with
\* id, players and spectators as they were.
C21_HostResetFresh ==
    \A r \in Rooms : \A t \in clockReadings :
        LET room == gameRooms[r]
            res == handleResetGame(room, room.players[1], t)
        IN /\ res.answer = "success"
           /\ \A b \in Idx : \A c \in Idx : res.room.boards[b][c] = Null
           /\ \A b \in Idx : res.room.mainBoard[b] = Null
           /\ res.room.currentPlayer = "X"
           /\ res.room.nextBoardIndex = -1
           /\ res.room.gameOver = FALSE
           /\ res.room.winner = Null
           /\ res.room.lastMove = NoMove
           /\ res.room.id = room.id
           /\ res.room.players = room.players
           /\ res.room.spectators = room.spectators

\* the host has reset a room whose game had been won, with a spectator
\* watching
C21_Witness ==
    \E r \in Rooms :
        /\ last.op = "reset"
        /\ accepted = MaxMoves
        /\ gameRooms[r].spectators # << >>
        /\ gameRooms[r].boards = EmptyBoards
        /\ ~gameRooms[r].gameOver

\* C22: a create request leaves every room the store already holds as it
\* is: the id it draws is the id of no existing room, so no existing
\* record is replaced.
C22_CreateKeepsRooms ==
    \A roomId \in RoomIds : \A p \in Participants : \A t \in clockReadings :
        \A r \in Rooms : createPOST(gameRooms, roomId, p, t)[r] = gameRooms[r]

\* C27: for every 9-slot board over null, X and O, checkBoardWinner returns
\* the mark of the first triple, in the order rows 0-1-2, 3-4-5, 6-7-8,
\* columns 0-3-6, 1-4-7, 2-5-8, diagonals 0-4-8, 2-4-6, whose three slots
\* are equal and not null; otherwise draw when no slot is null; otherwise
\* null; and the copies of the room route, the component and the store
\* return the same value.
C27_EvaluatorsAgree ==
    evalAnswer # NotEvaluated =>
        LET order == << <<0, 1, 2>>, <<3, 4, 5>>, <<6, 7, 8>>,
                        <<0, 3, 6>>, <<1, 4, 7>>, <<2, 5, 8>>,
                        <<0, 4, 8>>, <<2, 4, 6>> >>
            complete(k) == /\ evalBoard[order[k][1]] # Null
                           /\ evalBoard[order[k][1]] = evalBoard[order[k][2]]
                           /\ evalBoard[order[k][1]] = evalBoard[order[k][3]]
        IN /\ \A k \in 1..8 :
                 (complete(k) /\ \A j \in 1..(k - 1) : ~complete(j))
                    => evalAnswer.route = evalBoard[order[k][1]]
           /\ ((\A k \in 1..8 : ~complete(k)) /\ (\A i \in Idx : evalBoard[i] # Null))
                 => evalAnswer.route = "draw"
           /\ ((\A k \in 1..8 : ~complete(k)) /\ (\E i \in Idx : evalBoard[i] = Null))
                 => evalAnswer.route = Null
           /\ evalAnswer.component = evalAnswer.route
           /\ evalAnswer.store = evalAnswer.route

\* a board whose top row is X and whose middle row is O has been evaluated:
\* two triples are complete and the first decides
C27_Witness ==
    /\ evalAnswer # NotEvaluated
    /\ \A i \in 0..2 : evalBoard[i] = "X"
    /\ \A i \in 3..5 : evalBoard[i] = "O"
    /\ evalAnswer.route = "X"

\* C23: whenever the AI is to move, the move the root minimax call returns is
\* legal in the state it was called in: it lies in the sub-board required
\* by nextBoardIndex (any sub-board when nextBoardIndex is -1 or names a
\* resolved sub-board), that sub-board is unresolved and the cell is empty,
\* and handleMove applies it.
C23_RootMoveLegal ==
    aiToMove =>
        LET res == rootMinimax(game, aiPlayer, aiDepth)
            b == res.move[1]
            c == res.move[2]
        IN /\ res.move # NoMove
           /\ b \in Idx /\ c \in Idx
           /\ (nextBoardIndex # -1 /\ mainBoard[nextBoardIndex] = Null)
                 => b = nextBoardIndex
           /\ mainBoard[b] = Null
           /\ boards[b][c] = Null
           /\ handleMove(game, b, c).answer = "applied"

\* the AI is to move with a free choice of sub-board while some sub-boards
\* are resolved
C23_Witness ==
    /\ aiToMove
    /\ nextBoardIndex # -1
    /\ mainBoard[nextBoardIndex] # Null
    /\ rootMinimax(game, aiPlayer, aiDepth).move # NoMove

\* the value of a node in the recursion of minimax with every move visited:
\* the largest (isMaximizing) or smallest value among its moves
RECURSIVE fullValue(_, _, _, _, _, _, _)
fullValue(evaluate, depth, isMaximizing, player, currentBoards, currentMainBoard, currentNextBoardIndex) ==
    LET base == baseCase(evaluate, depth, player, currentMainBoard)
        moves == validMoves(currentBoards, currentMainBoard, currentNextBoardIndex)
        mark == IF isMaximizing THEN player
                ELSE IF player = "X" THEN "O" ELSE "X"
        value(i) == LET new == simulate(currentBoards, currentMainBoard, moves[i], mark)
                    IN fullValue(evaluate, depth - 1, ~isMaximizing, player,
                                 new.boards, new.mainBoard, new.nextBoardIndex)
        values == {value(i) : i \in 1..Len(moves)}
    IN IF base.final THEN base.score
       ELSE IF Len(moves) = 0 THEN 0
       ELSE IF isMaximizing
            THEN CHOOSE v \in values : \A w \in values : v >= w
            ELSE CHOOSE v \in values : \A w \in values : v <= w

\* C24: whenever the AI is to move, the score of the root minimax call
\* (alpha -Infinity, beta Infinity, pruning active) equals the value of the
\* same recursion with every move visited.
C24_PruningKeepsScore ==
    aiToMove =>
        rootMinimax(game, aiPlayer, aiDepth).score
            = fullValue(evaluateBoardOf(game), aiDepth, TRUE, aiPlayer, boards, mainBoard,
                        nextBoardIndex)

\* the AI is to move at depth two or more and its moves differ in value
C24_Witness ==
    /\ aiToMove
    /\ aiDepth >= 2
    /\ LET moves == validMoves(boards, mainBoard, nextBoardIndex)
           value(i) == LET new == simulate(boards, mainBoard, moves[i], aiPlayer)
                       IN fullValue(evaluateBoardOf(game), aiDepth - 1, FALSE, aiPlayer,
                                    new.boards, new.mainBoard, new.nextBoardIndex)
       IN \E i \in 1..Len(moves) : value(i) # value(1)

\* C28: the move of the root minimax call is the first of validMoves
\* (sub-boards 0..8, cells 0..8 within a sub-board) whose value with every
\* move visited equals the score returned; no later move of that value
\* replaces it.
C28_FirstBestMoveKept ==
    aiToMove =>
        LET res == rootMinimax(game, aiPlayer, aiDepth)
            moves == validMoves(boards, mainBoard, nextBoardIndex)
            value(i) == LET new == simulate(boards, mainBoard, moves[i], aiPlayer)
                        IN fullValue(evaluateBoardOf(game), aiDepth - 1, FALSE, aiPlayer,
                                     new.boards, new.mainBoard, new.nextBoardIndex)
        IN \E i \in 1..Len(moves) :
              /\ moves[i] = res.move
              /\ value(i) = res.score
              /\ \A j \in 1..(i - 1) : value(j) # res.score

\* the AI is to move at depth two or more and two of its moves have the
\* best value
C28_Witness ==
    /\ aiToMove
    /\ aiDepth >= 2
    /\ LET res == rootMinimax(game, aiPlayer, aiDepth)
           moves == validMoves(boards, mainBoard, nextBoardIndex)
           value(i) == LET new == simulate(boards, mainBoard, moves[i], aiPlayer)
                       IN fullValue(evaluateBoardOf(game), aiDepth - 1, FALSE, aiPlayer,
                                    new.boards, new.mainBoard, new.nextBoardIndex)
       IN /\ Len(moves) >= 2
          /\ res.move = moves[1]
          /\ \E j \in 2..Len(moves) : value(j) = res.score

\* C26: whenever the AI is to move, a depth-0 call of minimax on the position
\* reached by one of its moves, when that position does not end the game,
\* returns the heuristic score of that position (its own boards and
\* mainBoard) for the AI's mark.
C26_LeafScoresOwnPosition ==
    aiToMove =>
        LET moves == validMoves(boards, mainBoard, nextBoardIndex)
        IN \A i \in 1..Len(moves) :
              LET new == simulate(boards, mainBoard, moves[i], aiPlayer)
                  leaf == minimax(evaluateBoardOf(game), 0, -Infinity, Infinity,
                                  FALSE, aiPlayer, new.boards, new.mainBoard,
                                  new.nextBoardIndex)
                  reached == [game EXCEPT !.boards = new.boards,
                                          !.mainBoard = new.mainBoard]
              IN checkBoardWinnerLocal(new.mainBoard) = Null
                    => leaf.score = evaluateBoard(reached, aiPlayer)

\* C29: whenever the AI is to move, evaluateBoard for the AI's mark is the sum
\* over the eight main-board lines of 10 times the player's marks when the
\* line holds only the player's marks and empty entries, minus 10 times the
\* opponent's marks when it holds only the opponent's marks and empty
\* entries, and nothing otherwise (both players present, or a drawn
\* sub-board in the line), plus the same with weight 1 over the eight lines
\* of every unresolved sub-board; resolved sub-boards add nothing.
C29_LineRule ==
    aiToMove =>
        LET player == aiPlayer
            opponent == IF aiPlayer = "X" THEN "O" ELSE "X"
            order == << <<0, 1, 2>>, <<3, 4, 5>>, <<6, 7, 8>>,
                        <<0, 3, 6>>, <<1, 4, 7>>, <<2, 5, 8>>,
                        <<0, 4, 8>>, <<2, 4, 6>> >>
            count(cells, k, mark) == Cardinality({i \in 1..3 : cells[order[k][i]] = mark})
            only(cells, k, mark) == \A i \in 1..3 : cells[order[k][i]] \in {mark, Null}
            rule(cells, k, weight) ==
                IF count(cells, k, player) > 0 /\ only(cells, k, player)
                THEN weight * count(cells, k, player)
                ELSE IF count(cells, k, opponent) > 0 /\ only(cells, k, opponent)
                THEN -(weight * count(cells, k, opponent))
                ELSE 0
            lines(cells, weight) ==
                rule(cells, 1, weight) + rule(cells, 2, weight) + rule(cells, 3, weight)
                + rule(cells, 4, weight) + rule(cells, 5, weight) + rule(cells, 6, weight)
                + rule(cells, 7, weight) + rule(cells, 8, weight)
            sub(b) == IF mainBoard[b] = Null THEN lines(boards[b], 1) ELSE 0
        IN evaluateBoard(game, player)
              = lines(mainBoard, 10) + sub(0) + sub(1) + sub(2) + sub(3) + sub(4)
                + sub(5) + sub(6) + sub(7) + sub(8)

\* C30: whenever the AI is to move and one of its legal moves ends the game
\* with the AI as winner, the move of the root minimax call ends the game
\* with the AI as winner.
C30_ImmediateWinTaken ==
    aiToMove =>
        LET wins(b, c) == LET res == handleMove(game, b, c)
                          IN /\ res.answer = "applied"
                             /\ res.game.gameOver
                             /\ res.game.winner = aiPlayer
            move == rootMinimax(game, aiPlayer, aiDepth).move
        IN (\E b \in Idx, c \in Idx : wins(b, c))
              => (move # NoMove /\ wins(move[1], move[2]))

\* C25: whenever the AI is to move, the root minimax call leaves the arrays
\* it was handed (the component's boards and mainBoard) with the entries
\* they had, and in every node the node's own position reads the same after
\* each simulated move and its search as before it, so no simulated move
\* shows in the parent or in a sibling.
C25_CallerStateKept ==
    aiToMove =>
        LET caller == componentHeap(game)
            res == rootMinimaxRefs(game, aiPlayer, aiDepth)
        IN /\ boardsAt(res.heap, caller.boards) = boards
           /\ res.heap[caller.mainBoard] = mainBoard
           /\ res.intact

\* the AI is to move at depth two or more with marks of both players on
\* the board; the search on references has looked at moves and returns
\* what minimax returns
C25_Witness ==
    /\ aiToMove
    /\ aiDepth >= 2
    /\ marks(boards) >= 3
    /\ LET res == rootMinimaxRefs(game, aiPlayer, aiDepth)
           plain == rootMinimax(game, aiPlayer, aiDepth)
       IN /\ res.move # NoMove
          /\ res.move = plain.move
          /\ res.score = plain.score

\* the cells at which the room accepts a move from the participant to move
acceptedCells(room) ==
    {bc \in Idx \X Idx :
        handleMakeMove(room, mover(room), bc[1], bc[2], now).answer = "success"}

\* C31: in every reachable room with both players joined and gameOver false
\* there is a cell (boardIndex, cellIndex) at which handleMakeMove accepts a
\* move from the participant whose turn it is.
C31_NeverStuck ==
    \A r \in Rooms :
        (Len(gameRooms[r].players) = 2 /\ ~gameRooms[r].gameOver)
            => acceptedCells(gameRooms[r]) # {}

\* a move has been accepted into the last empty cell of a sub-board, which
\* is now drawn, and the game goes on: the mover has cells to play, none of
\* them in a resolved sub-board
C31_Witness ==
    \E r \in Rooms :
        /\ last.op = "move"
        /\ Len(gameRooms[r].players) = 2
        /\ ~gameRooms[r].gameOver
        /\ gameRooms[r].mainBoard[gameRooms[r].lastMove[1]] = "draw"
        /\ acceptedCells(gameRooms[r]) # {}
        /\ \E i \in Idx : gameRooms[r].mainBoard[i] # Null

\* C32: every accepted move fills exactly one empty cell, so the moves
\* accepted since the last reset are as many as the marked cells, at most
\* 81; and when the participants keep submitting legal moves, a game in play
\* leads to gameOver = true unless the host resets it.
C32_EveryGameEnds ==
    /\ [][\A r \in Rooms :
             acceptedMoveStep(r) =>
                 /\ Cardinality(changedCells(gameRooms[r].boards, gameRooms'[r].boards)) = 1
                 /\ \A bc \in changedCells(gameRooms[r].boards, gameRooms'[r].boards) :
                       gameRooms[r].boards[bc[1]][bc[2]] = Null
                 /\ marks(gameRooms'[r].boards) = marks(gameRooms[r].boards) + 1]_vars
    /\ [](\A r \in Rooms : accepted = marks(gameRooms[r].boards) /\ accepted <= 81)
    /\ \A r \in {RoomId} :
          (r \in Rooms /\ inPlay(gameRooms[r]) /\ last.op # "reset")
              ~> ((r \in Rooms /\ gameRooms[r].gameOver) \/ last.op = "reset")

\* a game of more than 40 accepted moves has ended drawn: the last of its
\* moves resolved the ninth sub-board, every sub-board is won and no
\* main-board line is complete
C32_Witness ==
    \E r \in Rooms :
        /\ last.op = "move"
        /\ accepted > 40
        /\ gameRooms[r].gameOver
        /\ gameRooms[r].winner = "draw"
        /\ \A i \in Idx : gameRooms[r].mainBoard[i] \in Marks

\* C33: the moves accepted since the last reset place X and O alternately,
\* X first: the move accepted after an even number of moves writes X and is
\* sent by players[0], the move accepted after an odd number writes O and is
\* sent by players[1]; so in every reachable room the X cells are as many as
\* the O cells, or one more.
C33_MarksAlternate ==
    /\ [][\A r \in Rooms :
             acceptedMoveStep(r) =>
                 LET target == gameRooms'[r].lastMove
                     placed == gameRooms'[r].boards[target[1]][target[2]]
                 IN /\ changedCells(gameRooms[r].boards, gameRooms'[r].boards) = {target}
                    /\ placed = IF accepted % 2 = 0 THEN "X" ELSE "O"
                    /\ placed = "X" <=> last'.playerId = gameRooms[r].players[1]
                    /\ placed = "O" <=> (/\ Len(gameRooms[r].players) = 2
                                         /\ last'.playerId = gameRooms[r].players[2])]_vars
    /\ [](\A r \in Rooms :
             markCount(gameRooms[r], "X") - markCount(gameRooms[r], "O") \in {0, 1})

\* the second player has just placed an O, the fourth mark or a later one of
\* the game, and the X cells are as many as the O cells
C33_Witness ==
    \E r \in Rooms :
        /\ last.op = "move"
        /\ Len(gameRooms[r].players) = 2
        /\ last.playerId = gameRooms[r].players[2]
        /\ markCount(gameRooms[r], "O") >= 2
        /\ markCount(gameRooms[r], "X") = markCount(gameRooms[r], "O")

\* the game g was won by the mark of its last move, which holds three
\* main-board entries in a line
wonByLastMove(g) ==
    /\ g.winner = g.boards[g.lastMove[1]][g.lastMove[2]]
    /\ \E k \in 1..8 : \A j \in 1..3 :
          g.mainBoard[winningCombinations[k][j]] = g.winner

\* C34: when an accepted move ends the game with winner X or O, in a room or
\* in the local game, the winner is the mark that move placed (the mark of
\* the player who moved) and mainBoard holds a line of three entries equal
\* to it.
C34_WinnerMovedLast ==
    [][/\ \A r \in Rooms :
             (/\ acceptedMoveStep(r)
              /\ gameRooms'[r].gameOver
              /\ gameRooms'[r].winner \in Marks)
                 => /\ wonByLastMove(gameRooms'[r])
                    /\ gameRooms'[r].winner = gameRooms[r].currentPlayer
       /\ (/\ gameMode = "local"
           /\ accepted' = accepted + 1
           /\ gameOver'
           /\ winner' \in Marks)
              => /\ winner' = boards'[lastMove'[1]][lastMove'[2]]
                 /\ winner' = currentPlayer
                 /\ \E k \in 1..8 : \A j \in 1..3 :
                       mainBoard'[winningCombinations[k][j]] = winner']_vars

\* the second player's move has won a third sub-board in a line and with it
\* the game, for O
C34_Witness ==
    \E r \in Rooms :
        /\ last.op = "move"
        /\ Len(gameRooms[r].players) = 2
        /\ last.playerId = gameRooms[r].players[2]
        /\ gameRooms[r].gameOver
        /\ gameRooms[r].winner = "O"

\* the arrays of the room have the indices 0..8 and no other
nineByNine(room) ==
    /\ DOMAIN room.mainBoard = Idx
    /\ DOMAIN room.boards = Idx
    /\ \A i \in Idx : DOMAIN room.boards[i] = Idx

\* C38: in every reachable room a move request whose boardIndex or cellIndex
\* is an integer outside 0..8 is answered with an error and returns the room
\* record unchanged, whoever sends it and whatever the clock reads; boards
\* and mainBoard never hold an index outside 0..8.
C38_OutOfRangeRejected ==
    \A r \in Rooms :
        /\ nineByNine(gameRooms[r])
        /\ \A p \in Participants, b \in Requested, c \in Requested :
              (b \notin Idx \/ c \notin Idx) =>
                  \A t \in clockReadings :
                      /\ handleMakeMove(gameRooms[r], p, b, c, t).answer \in moveErrors
                      /\ handleMakeMove(gameRooms[r], p, b, c, t).room = gameRooms[r]

\* a game in play after an accepted move: the participant to move, who has a
\* legal move, is answered "Board already won" for a boardIndex above 8 or
\* below 0 and "Cell already filled" for a cellIndex outside 0..8 in the
\* sub-board where a move would be accepted
C38_Witness ==
    \E r \in Rooms :
        /\ last.op = "move"
        /\ inPlay(gameRooms[r])
        /\ answerNow(r, mover(gameRooms[r]), 9, 0) \in {"Board already won", "Invalid board"}
        /\ answerNow(r, mover(gameRooms[r]), -1, 0) \in {"Board already won", "Invalid board"}
        /\ \E bc \in acceptedCells(gameRooms[r]) :
              /\ answerNow(r, mover(gameRooms[r]), bc[1], 9) = "Cell already filled"
              /\ answerNow(r, mover(gameRooms[r]), bc[1], -1) = "Cell already filled"

\* C37: the game view returned by useMultiplayer mirrors the room the client
\* holds: the nextBoardIndex of the view is room.nextBoardIndex for every room
\* value, also when room.nextBoardIndex is 0.  The view is built with
\* `room?.nextBoardIndex || -1`, which turns 0 into -1.
C37_ViewMirrorsRoom ==
    clientRoom.id # Null => helpers(clientRoom).nextBoardIndex = clientRoom.nextBoardIndex

\* C35: polling converges: if requests to a room stop (from some point on
\* every step is a poll or the arrival of an answer), the polling client
\* eventually holds, and keeps, a copy equal to the server's room record, so
\* every accepted change, a spectator joining included, is observed.  A poll
\* is applied only when lastUpdateTime is strictly greater, and a spectator
\* joining does not stamp the room.
C35_PollingConverges ==
    <>[][Polling]_vars => <>[](clientRoom = gameRooms[RoomId])

\* C36: in AI mode a reset performed while an AI move is pending (after
\* makeAIMove has scheduled its callback, before the callback runs) is not
\* undone: when the callback has run, boards holds no mark of the pre-reset
\* game and mainBoard[i] is checkBoardWinner(boards[i]) for every i.  The
\* callback works on the boards it captured and hands them to setBoards.
C36_ResetNotUndone ==
    [][(deferred.scheduled /\ last.op = "resetGame" /\ ~deferred'.scheduled)
          => /\ \A b \in Idx, c \in Idx :
                   deferred.game.boards[b][c] # Null => boards'[b][c] = Null
             /\ \A i \in Idx : mainBoard'[i] = checkBoardWinnerLocal(boards'[i])]_vars

====
